---- MODULE Spec2Model ----
(***************************************************************************)
(* Verification model of the sandbox subsystem of ds-agent                 *)
(* (src/app/core/sandbox): the multiplexed-stream parser, the tar archive  *)
(* helpers, the exec I/O loops, the image manager, the sandbox lifecycle   *)
(* and the daemon client singleton; and of the application code around it  *)
(* (src/app): api keys, the chat event stream, the uploads table and the   *)
(* role checks.  Each component has its own specification over the shared  *)
(* variables; a component's specification leaves the other components'     *)
(* variables at their idle values.                                         *)
(***************************************************************************)
EXTENDS Integers, Sequences, FiniteSets, TLC

VARIABLES
    stream,     \* parser: the bytes the socket will deliver, in order
    pos,        \* parser: how many bytes of stream have been fed so far
    parser,     \* parser: the StreamParser object (header, buffer, _stdout, _stderr)
    midFrame,   \* parser: some feed call ended inside a header or a payload
    emptyFed,   \* parser: some feed call was given an empty chunk
    files,      \* archive: the name/content entries given to create_archive
    archive,    \* archive: the tar archive built from files (a sequence of blocks)
    tarPc,      \* archive: "init" -> "written" -> "read"
    readName,   \* archive: the filename given to extract_file_from_archive
    readResult, \* archive: what extract_file_from_archive returned or raised
    written,    \* socket: how many bytes of stream the command has written so far
    running,    \* daemon: the command's process is alive
    sockReset,  \* socket: the peer has reset the connection
    clock,      \* time elapsed since start_time, in timeout units
    timeout,    \* call argument: timeout
    stdin,      \* call argument / loop local: the stdin bytes not sent yet
    delivered,  \* socket: the stdin bytes the socket has accepted, in order
    pc,         \* where the call is
    ready,      \* loop local: what select reported, [r, w]
    streamData, \* docker_communicate local: stream_data
    sockOpen,   \* socket: our end is open (not yet sock.close())
    wrShut,     \* socket: how many times the write half was shut down
    outcome,    \* how the call ended: returned value or raised exception
    containerUp, \* daemon: the container of the call exists
    timedOut,   \* loop local timed_out: the deadline check ended the loop
    sockErr,    \* the errors of the last read and the last write on the socket
    eph,        \* per sandbox: the run_ephemeral call on it: [pc, log, exc]
    fsys,       \* per container: the content of the file "f" in it, 0 if none
    seen,       \* per sandbox: the contents its read_file and exec have returned
    lim,        \* limits: the declared limits, their merge, the containers created
    images,     \* daemon: the image tags that exist
    containers, \* daemon: the names of the containers that exist
    sandboxes,  \* the Sandbox objects: id -> [state, profile]
    scope,      \* per sandbox: the "with sandbox:" block, outside/inside/left
    threads,    \* callers of build_profile / create: [pc, profile, force, kind]
    lastOp,     \* the operation the last step performed, and how it ended
    buildOps,   \* per tag: how many image-build operations were performed
    tagHist,    \* per tag: what is known of the calls made for it so far
    spawned,    \* per sandbox: how many containers it has spawned
    removals,   \* per sandbox: how many container removals it has requested
    dcm,        \* DockerClientManager: _instances, _lock, the threads in __new__
    tok,        \* TokenManager: the signing keys and the api key calls
    chat,       \* ChatService.generate_response: the run and the events emitted
    upl,        \* uploads table and upload files, the calls working on them
    req         \* one HTTP request through a role-checking dependency

parserVars == <<stream, pos, parser, midFrame, emptyFed>>
tarVars == <<files, archive, tarPc, readName, readResult>>
ioVars == <<written, running, sockReset, clock, timeout, stdin, delivered, pc,
            ready, streamData, sockOpen, wrShut, outcome, containerUp, timedOut,
            sockErr>>
appVars == <<dcm, tok, chat, upl, req>>
lifeVars == <<images, containers, sandboxes, scope, threads, lastOp, buildOps,
              tagHist, spawned, removals, eph, fsys, seen>>
vars == <<stream, pos, parser, midFrame, emptyFed,
          files, archive, tarPc, readName, readResult,
          written, running, sockReset, clock, timeout, stdin, delivered, pc,
          ready, streamData, sockOpen, wrShut, outcome, containerUp, timedOut,
          images, containers, sandboxes, scope, threads, lastOp, buildOps,
          tagHist, spawned, removals, sockErr, eph, fsys, seen, lim,
          dcm, tok, chat, upl, req>>

\* The idle values of the application components.
MaxCtors == 2
MaxNewCalls == 1
MaxClears == 1

\* The threads that construct DockerClientManager, and the client keys
\* (retry_read, retry_status_forcelist) they construct it with.
Ctors == 1..MaxCtors
ClientKeys == {"500", "404_500"}

\* A thread outside DockerClientManager.__new__.
IdleCtor == [pc |-> "idle", key |-> "", instance |-> 0, ret |-> 0,
             retEpoch |-> 0, err |-> "", calls |-> 0]

\* DockerClientManager as the class statement leaves it (docker.py:43-45):
\* _instances = {} (0 stands for "no entry"), _lock = Lock() (0 = free).
\* Instances are numbered in the order they are made; clients holds those
\* whose client attribute is set; inits counts, per key, the
\* _initialize_client calls since the last clear_instances.
NoDcm == [instances |-> [k \in ClientKeys |-> 0], lock |-> 0,
          thr |-> [t \in Ctors |-> IdleCtor],
          inits |-> [k \in ClientKeys |-> 0],
          made |-> 0, clients |-> {}, clears |-> 0]
MaxKeyIds == 2
MaxKeyBytes == 2
MaxRandom == 2

\* The ids and the key material of the signing keys, and the values
\* secrets.token_bytes(24) may return.
KeyIds == 1..MaxKeyIds
KeyBytes == 1..MaxKeyBytes
RandomBytes == 1..MaxRandom

\* No TokenManager yet.
NoTok == [step |-> "idle", active_key_id |-> 0, key |-> 0, expired |-> FALSE,
          random |-> 0, api_key |-> <<>>, presented |-> <<>>, kid |-> 0,
          forged |-> "", result |-> ""]
MaxAgentEvents == 2

\* No generate_response call.
NoChat == [step |-> "idle", upload |-> "none", events |-> <<>>, fails |-> FALSE,
           emitted |-> <<>>]
MaxUploads == 1
MaxAssoc == 2

\* The upload tokens in the table, the associate_with_thread calls (call c
\* is for thread id c), and the thread id of an earlier conversation.
UploadTokens == 1..MaxUploads
AssocCalls == 1..MaxAssoc
EarlierThread == MaxAssoc + 1

\* An associate_with_thread call not made yet.  Its result is "file_path"
\* when it returned the file_path of the row of its token (a temporary
\* file's name, never empty), or the name of the exception it raised.
IdleAssoc == [pc |-> "idle", token |-> 0, matched |-> FALSE, result |-> ""]

\* No cleanup_orphaned_uploads call.
IdleCleanup == [pc |-> "idle", picked |-> {}, wasActive |-> {}, removed |-> {}]

\* An empty uploads table.
NoUpl == [rows |-> << >>, lock |-> << >>,
          calls |-> [c \in AssocCalls |-> IdleAssoc],
          clean |-> IdleCleanup, associated |-> {}]
MaxUserId == 2

\* No request.
NoReq == [step |-> "idle", dep |-> "", credential |-> "", user_id |-> 0,
          role |-> "", status |-> 0, handled |-> FALSE]

\* Bounds of the lifecycle specification.
MaxSandboxes == 2
MaxCreated == 1
MaxCallers == 1
MaxBuilds == 2

ProfileNames == {"ds"}
UnknownProfile == "none"
\* profile.image
Image(profile) == "img-" \o profile
Tags == { Image(p) : p \in ProfileNames }

SandboxIds == 1..MaxSandboxes
Callers == 1..MaxCallers

NoSandboxes == [s \in SandboxIds |-> [state |-> "absent", profile |-> ""]]
NoEph == [s \in SandboxIds |-> [pc |-> "idle", log |-> <<>>, exc |-> ""]]
NoFiles == [s \in SandboxIds |-> 0]
NothingSeen == [s \in SandboxIds |-> {}]
\* ---- resource limits: values shared by every specification ----

\* The largest value a caller declares for a limit.
MaxLimit == 2
LimitValues == 1..MaxLimit

\* class ResourceLimits: the keys of a limits dict
LimitNames == {"cputime", "realtime", "file_size", "memory", "processes"}

\* The limits dict {} (merge_limits_defaults treats None alike).
NoLimits == [n \in {} |-> 0]

\* A keyword argument of containers.create / containers.run: passed or not.
Unset == [set |-> FALSE, value |-> 0]
Passed(v) == [set |-> TRUE, value |-> v]

NoProfile == [mem_limit_mb |-> 0, cpu_period |-> 0, cpu_quota |-> 0]
NoLim == [declared |-> NoLimits, profile |-> NoProfile, merged |-> NoLimits,
          step |-> "idle", error |-> "", created |-> {}]

IdleThread == [pc |-> "idle", profile |-> "", force |-> FALSE, kind |-> ""]
IdleThreads == [t \in Callers |-> IdleThread]

Op(op, id, result, issued, built) ==
    [op |-> op, id |-> id, result |-> result, issued |-> issued, built |-> built]
NoOp == Op("", 0, "", <<>>, 0)

\* What is recorded about the calls for one tag: the tag was absent at the
\* start; some call has completed; all calls so far were sequential and not
\* forced; no build and no existence query of an existing tag has failed; no
\* call so far was forced.
FreshHist(absent) ==
    [absent |-> absent, called |-> FALSE, plain |-> TRUE, faultFree |-> TRUE,
     unforced |-> TRUE]

(***************************************************************************)
(* Helpers on sequences                                                    *)
(***************************************************************************)
Min(a, b) == IF a < b THEN a ELSE b

\* All sequences over S of length 0..n.
SeqsUpTo(S, n) == UNION { [1..k -> S] : k \in 0..n }

RECURSIVE Concat(_)
Concat(ss) == IF ss = <<>> THEN <<>> ELSE Head(ss) \o Concat(Tail(ss))

(***************************************************************************)
(* StreamParser  (src/app/core/sandbox/utility.py:9-46)                    *)
(***************************************************************************)
\* Bounds of the parser specification.
MaxFrames == 2
MaxPayload == 2
MaxChunk == 9

\* DockerService.STREAM_HEADER_SIZE
STREAM_HEADER_SIZE == 8

StreamTypes == {1, 2, 3}        \* 1 = stdout, 2 = stderr, 3 = some other type
PayloadBytes == {1, 2}

\* One frame on the wire: [type][0][0][0][4-byte big-endian length] payload.
FrameBytes(t, payload) == <<t, 0, 0, 0, 0, 0, 0, Len(payload)>> \o payload

\* Payloads of 0..MaxPayload bytes; the byte values are also stream types
\* and lengths, so a decoder that loses the frame boundary reads them as a header.
Payloads == { [i \in 1..k |-> b] : k \in 0..MaxPayload, b \in PayloadBytes }

Frames == { [type |-> t, payload |-> p] : t \in StreamTypes, p \in Payloads }

RECURSIVE Wire(_)
Wire(fs) == IF fs = <<>> THEN <<>>
            ELSE FrameBytes(Head(fs).type, Head(fs).payload) \o Wire(Tail(fs))

ValidStreams == { Wire(fs) : fs \in SeqsUpTo(Frames, MaxFrames) }

\* StreamParser.__init__
NewStreamParser(header) ==
    [header |-> header, buffer |-> <<>>, stdout |-> <<>>, stderr |-> <<>>]

\* struct.unpack(">BxxxL", header_from_data): the length field
UnpackLength(h) == h[5] * 16777216 + h[6] * 65536 + h[7] * 256 + h[8]

\* A plausible slip: the loop body runs once per feed call.
RECURSIVE ProcessBufferOnce(_)
ProcessBufferOnce(p) ==
    IF Len(p.buffer) < p.header THEN p
    ELSE LET total_frame_size == p.header + UnpackLength(p.buffer)
         IN  IF Len(p.buffer) < total_frame_size THEN p
             ELSE LET payload == SubSeq(p.buffer, p.header + 1, total_frame_size)
                  IN  [p EXCEPT
                         !.stdout = IF p.buffer[1] = 1 THEN @ \o payload ELSE @,
                         !.stderr = IF p.buffer[1] = 2 THEN @ \o payload ELSE @,
                         !.buffer = SubSeq(@, total_frame_size + 1, Len(@))]

\* A plausible slip: the part of a payload that has arrived is written out
\* before the frame is complete.
RECURSIVE ProcessBufferEager(_)
ProcessBufferEager(p) ==
    IF Len(p.buffer) < p.header THEN p
    ELSE LET stream_type == p.buffer[1]
             total_frame_size == p.header + UnpackLength(p.buffer)
             payload == SubSeq(p.buffer, p.header + 1,
                               Min(total_frame_size, Len(p.buffer)))
             written_out == [p EXCEPT
                         !.stdout = IF stream_type = 1 THEN @ \o payload ELSE @,
                         !.stderr = IF stream_type = 2 THEN @ \o payload ELSE @]
         IN  IF Len(p.buffer) < total_frame_size THEN written_out
             ELSE ProcessBufferEager([written_out EXCEPT
                         !.buffer = SubSeq(@, total_frame_size + 1, Len(@))])

\* A plausible slip: "else" for "elif stream_type == 2", so that a frame of
\* any other type is taken for stderr.
RECURSIVE ProcessBufferElse(_)
ProcessBufferElse(p) ==
    IF Len(p.buffer) < p.header THEN p
    ELSE LET stream_type == p.buffer[1]
             total_frame_size == p.header + UnpackLength(p.buffer)
         IN  IF Len(p.buffer) < total_frame_size THEN p
             ELSE LET payload == SubSeq(p.buffer, p.header + 1, total_frame_size)
                  IN  ProcessBufferElse([p EXCEPT
                         !.stdout = IF stream_type = 1 THEN @ \o payload ELSE @,
                         !.stderr = IF stream_type # 1 THEN @ \o payload ELSE @,
                         !.buffer = SubSeq(@, total_frame_size + 1, Len(@))])

\* StreamParser._process_buffer
RECURSIVE ProcessBuffer(_)
ProcessBuffer(p) ==
    IF Len(p.buffer) < p.header THEN p
    ELSE LET stream_type == p.buffer[1]
             length == UnpackLength(p.buffer)
             total_frame_size == p.header + length
         IN  IF Len(p.buffer) < total_frame_size THEN p
             ELSE LET payload == SubSeq(p.buffer, p.header + 1, total_frame_size)
                  IN  ProcessBuffer([p EXCEPT
                         !.stdout = IF stream_type = 1 THEN @ \o payload ELSE @,
                         !.stderr = IF stream_type = 2 THEN @ \o payload ELSE @,
                         !.buffer = SubSeq(@, total_frame_size + 1, Len(@))])

\* A plausible slip: each feed call starts new output buffers.
FeedFresh(p, data) ==
    ProcessBuffer([p EXCEPT !.buffer = @ \o data, !.stdout = <<>>, !.stderr = <<>>])

\* StreamParser.feed
Feed(p, data) == ProcessBuffer([p EXCEPT !.buffer = @ \o data])

\* StreamParser.get_output
GetOutput(p) == <<p.stdout, p.stderr>>


\* One feed call with the next n bytes of the stream (n = 0: an empty chunk).
FeedChunk ==
    \E n \in 0..Min(MaxChunk, Len(stream) - pos) :
        /\ parser' = Feed(parser, SubSeq(stream, pos + 1, pos + n))
        /\ pos' = pos + n
        /\ midFrame' = (midFrame \/ parser'.buffer # <<>>)
        /\ emptyFed' = (emptyFed \/ n = 0)
        /\ UNCHANGED stream
        /\ UNCHANGED <<tarVars, ioVars, lifeVars, lim, appVars>>

ParserNext == FeedChunk

(***************************************************************************)
(* Tar archives  (src/app/core/sandbox/utility.py:49-78, Python tarfile)   *)
(*                                                                         *)
(* A name is a sequence of character codes (0 = NUL, 47 = "/"), a content  *)
(* is bytes or a str of code points.  An archive is a sequence of blocks:  *)
(* one header block per member (name field, size field, type flag), the    *)
(* member's data in BLOCKSIZE-byte blocks padded with NUL bytes, and two    *)
(* zero blocks at the end.                                                 *)
(***************************************************************************)
\* Bounds of the archive specification.  BLOCKSIZE is tarfile.BLOCKSIZE (512)
\* at the model's scale.
MaxFiles == 2
BLOCKSIZE == 2

\* "a", "d/a", "d/e", "d", "a/", "a\0b", "/a"
Names == { <<97>>, <<100, 47, 97>>, <<100, 47, 101>>, <<100>>,
           <<97, 47>>, <<97, 0, 98>>, <<47, 97>> }

ByteContents == { <<>>, <<0>>, <<255, 0>>, <<1, 0, 255>>, <<0, 0, 0, 0, 7>> }
StrContents == { <<97>>, <<233, 8364>> }

Contents == { [kind |-> "bytes", val |-> b] : b \in ByteContents }
            \cup { [kind |-> "str", val |-> t] : t \in StrContents }

Entries == { [name |-> n, content |-> c] : n \in Names, c \in Contents }

DistinctNames(fs) == \A i, j \in 1..Len(fs) : i # j => fs[i].name # fs[j].name

FileLists == { fs \in SeqsUpTo(Entries, MaxFiles) : DistinctNames(fs) }

\* str.encode("utf-8") of one code point below 0x10000
Utf8Char(cp) ==
    IF cp < 128 THEN <<cp>>
    ELSE IF cp < 2048 THEN <<192 + (cp \div 64), 128 + (cp % 64)>>
    ELSE <<224 + (cp \div 4096), 128 + ((cp \div 64) % 64), 128 + (cp % 64)>>

RECURSIVE Utf8Encode(_)
Utf8Encode(t) == IF t = <<>> THEN <<>> ELSE Utf8Char(Head(t)) \o Utf8Encode(Tail(t))

\* create_archive lines 56-57: str content is encoded, bytes content is kept
ContentBytes(content) ==
    IF content.kind = "str" THEN Utf8Encode(content.val) ELSE content.val

\* tarfile stn/nts: the header's name field is NUL-terminated
RECURSIVE CutAtNul(_)
CutAtNul(name) ==
    IF name = <<>> \/ Head(name) = 0 THEN <<>>
    ELSE <<Head(name)>> \o CutAtNul(Tail(name))

\* str.rstrip("/")
RECURSIVE RStripSlash(_)
RStripSlash(name) ==
    IF name # <<>> /\ name[Len(name)] = 47
    THEN RStripSlash(SubSeq(name, 1, Len(name) - 1))
    ELSE name

Block(kind, name, size, type, bytes) ==
    [kind |-> kind, name |-> name, size |-> size, type |-> type, bytes |-> bytes]

ZeroBlock == Block("zero", <<>>, 0, "", <<>>)

\* tarfile.TarInfo(name=name) with info.size set: a regular-file header
HeaderBlock(name, size) == Block("header", CutAtNul(name), size, "REGTYPE", <<>>)

NBlocks(size) == (size + BLOCKSIZE - 1) \div BLOCKSIZE

\* TarFile.addfile: copy info.size bytes of data, NUL-padded to whole blocks
DataBlocks(data) ==
    [k \in 1..NBlocks(Len(data)) |->
        Block("data", <<>>, 0, "",
              [i \in 1..BLOCKSIZE |->
                  IF (k - 1) * BLOCKSIZE + i <= Len(data)
                  THEN data[(k - 1) * BLOCKSIZE + i] ELSE 0])]

\* create_archive lines 52-62: one member per entry, in order
RECURSIVE MemberBlocks(_)
MemberBlocks(fs) ==
    IF fs = <<>> THEN <<>>
    ELSE LET content == ContentBytes(Head(fs).content)
         IN  <<HeaderBlock(Head(fs).name, Len(content))>> \o DataBlocks(content)
             \o MemberBlocks(Tail(fs))

\* create_archive
CreateArchive(fs) == MemberBlocks(fs) \o <<ZeroBlock, ZeroBlock>>

\* tarfile reading the members: a header, then its data blocks are skipped
RECURSIVE ParseMembers(_, _)
ParseMembers(ar, i) ==
    IF i > Len(ar) \/ ar[i].kind # "header" THEN <<>>
    ELSE LET isdir == ar[i].type = "DIRTYPE"
         IN  <<[name |-> IF isdir THEN RStripSlash(ar[i].name) ELSE ar[i].name,
                size |-> ar[i].size,
                type |-> ar[i].type,
                offset_data |-> i + 1]>>
             \o ParseMembers(ar, i + 1 + NBlocks(ar[i].size))

RECURSIVE BlocksBytes(_, _, _)
BlocksBytes(ar, from, n) ==
    IF n = 0 \/ from > Len(ar) THEN <<>>
    ELSE ar[from].bytes \o BlocksBytes(ar, from + 1, n - 1)

\* A plausible slip: the member's data is taken to be its whole blocks with
\* the NUL padding stripped, instead of the first size bytes.
RECURSIVE StripNuls(_)
StripNuls(b) ==
    IF b # <<>> /\ b[Len(b)] = 0 THEN StripNuls(SubSeq(b, 1, Len(b) - 1)) ELSE b

ReadMemberStripped(ar, m) == StripNuls(BlocksBytes(ar, m.offset_data, NBlocks(m.size)))

\* tar.extractfile(member).read(): the first size bytes of the member's blocks
ReadMember(ar, m) ==
    SubSeq(BlocksBytes(ar, m.offset_data, NBlocks(m.size)), 1, m.size)

Returned(data) == [ok |-> TRUE, data |-> data, error |-> ""]
Raised(error) == [ok |-> FALSE, data |-> <<>>, error |-> error]

\* A plausible slip: the member found is read without asking whether it is a
\* regular file.
ExtractFileAnyType(tar_bytes, filename) ==
    LET members == ParseMembers(tar_bytes, 1)
        wanted == RStripSlash(filename)
        hits == { k \in 1..Len(members) : members[k].name = wanted }
    IN  IF hits = {} THEN Raised("FileNotFoundError")
        ELSE LET member == members[CHOOSE k \in hits : \A j \in hits : j <= k]
             IN  Returned(ReadMember(tar_bytes, member))

\* extract_file_from_archive; tar.getmember(filename) looks up
\* filename.rstrip("/") and takes the last member of that name
ExtractFileFromArchive(tar_bytes, filename) ==
    LET members == ParseMembers(tar_bytes, 1)
        wanted == RStripSlash(filename)
        hits == { k \in 1..Len(members) : members[k].name = wanted }
    IN  IF hits = {} THEN Raised("FileNotFoundError")
        ELSE LET member == members[CHOOSE k \in hits : \A j \in hits : j <= k]
             IN  IF member.type # "REGTYPE" THEN Raised("FileNotFoundError")
                 ELSE Returned(ReadMember(tar_bytes, member))


\* write_files: the archive of all entries is built
WriteFiles ==
    /\ tarPc = "init"
    /\ archive' = CreateArchive(files)
    /\ tarPc' = "written"
    /\ UNCHANGED <<files, readName, readResult>>
    /\ UNCHANGED <<parserVars, ioVars, lifeVars, lim, appVars>>

\* read_file: one name is extracted from the archive
ReadFile ==
    /\ tarPc = "written"
    /\ \E name \in Names :
        /\ readName' = name
        /\ readResult' = ExtractFileFromArchive(archive, name)
    /\ tarPc' = "read"
    /\ UNCHANGED <<files, archive>>
    /\ UNCHANGED <<parserVars, ioVars, lifeVars, lim, appVars>>

TarNext == WriteFiles \/ ReadFile

(***************************************************************************)
(* One command attached to a socket: the daemon's side                     *)
(*                                                                         *)
(* The command writes the bytes of stream to the socket in bursts, may     *)
(* exit at any moment, and the connection may be reset.  Time advances in  *)
(* units of the timeout argument.                                          *)
(***************************************************************************)
\* Bounds of the I/O specifications.
MaxOutFrames == 2
MaxTimeout == 1
MaxStdin == 1

NotReady == [r |-> FALSE, w |-> FALSE]
NoSockErr == [r |-> "", w |-> ""]
\* How a command's process ended, as the daemon knows it: its exit code and
\* whether the kernel killed it for exceeding the memory limit.
NoFate == [exit |-> "none", oom |-> FALSE]
Fates(is_running) ==
    IF is_running THEN {NoFate}
    ELSE { [exit |-> "0", oom |-> FALSE], [exit |-> "1", oom |-> FALSE],
           [exit |-> "137", oom |-> TRUE] }

\* The outcome of a call.  exit_code and oom_killed are the entries of the
\* returned dict ("absent": the dict has no such key); fate is what happened
\* to the process.
NoOutcome == [kind |-> "none", error |-> "", stdout |-> <<>>, stderr |-> <<>>,
              timed_out |-> FALSE, exit_code |-> "none", oom_killed |-> "absent",
              fate |-> NoFate]
ReturnedOutput(out, err, timed_out) ==
    [kind |-> "returned", error |-> "", stdout |-> out, stderr |-> err,
     timed_out |-> timed_out, exit_code |-> "none", oom_killed |-> "absent",
     fate |-> NoFate]
RaisedError(error) ==
    [kind |-> "raised", error |-> error, stdout |-> <<>>, stderr |-> <<>>,
     timed_out |-> FALSE, exit_code |-> "none", oom_killed |-> "absent",
     fate |-> NoFate]

\* What a command may write: up to MaxOutFrames frames, each a one-byte
\* stdout frame or a two-byte stderr frame.
OutFrames == { [type |-> 1, payload |-> <<1>>], [type |-> 2, payload |-> <<2, 2>>] }
OutStreams == { Wire(fs) : fs \in SeqsUpTo(OutFrames, MaxOutFrames) }

\* The bursts in which written bytes arrive: half a header, a header and
\* part of a payload, or everything that is left.
BurstSizes(left) == { n \in {4, 9, left} : n <= left }

Stdins == { [i \in 1..k |-> i] : k \in 0..MaxStdin }

\* The payload bytes of the frames of the given type that are complete
\* within the first n bytes of the stream: what a decoder may report after
\* reading n bytes.
RECURSIVE CompletePayloads(_, _, _)
CompletePayloads(data, n, type) ==
    IF Len(data) < STREAM_HEADER_SIZE \/ n < STREAM_HEADER_SIZE + UnpackLength(data)
    THEN <<>>
    ELSE LET size == STREAM_HEADER_SIZE + UnpackLength(data)
         IN  (IF data[1] = type THEN SubSeq(data, STREAM_HEADER_SIZE + 1, size) ELSE <<>>)
             \o CompletePayloads(SubSeq(data, size + 1, Len(data)), n - size, type)

\* The command writes its next bytes to the socket.
ProcWrite ==
    /\ pc \notin {"idle", "done"}
    /\ running /\ ~sockReset
    /\ \E n \in BurstSizes(Len(stream) - written) :
        /\ n > 0
        /\ written' = written + n
    /\ UNCHANGED <<running, sockReset, clock, timeout, stdin, delivered, pc, ready,
                   streamData, sockOpen, wrShut, outcome, containerUp, timedOut>>
    /\ UNCHANGED <<parserVars, tarVars, lifeVars, sockErr, lim, appVars>>

\* The command's process exits; the daemon then closes the stream.
ProcExit ==
    /\ pc \notin {"idle", "done"}
    /\ running
    /\ running' = FALSE
    /\ UNCHANGED <<written, sockReset, clock, timeout, stdin, delivered, pc, ready,
                   streamData, sockOpen, wrShut, outcome, containerUp, timedOut>>
    /\ UNCHANGED <<parserVars, tarVars, lifeVars, sockErr, lim, appVars>>

\* The connection is reset by the peer.
ConnReset ==
    /\ pc \notin {"idle", "done"}
    /\ ~sockReset
    /\ sockReset' = TRUE
    /\ UNCHANGED <<written, running, clock, timeout, stdin, delivered, pc, ready,
                   streamData, sockOpen, wrShut, outcome, containerUp, timedOut>>
    /\ UNCHANGED <<parserVars, tarVars, lifeVars, sockErr, lim, appVars>>

\* Time passes.  The clock is read only at the top of a loop, so the time
\* that passes during an iteration is taken there.
Tick ==
    /\ pc \in {"c_top", "e_top"}
    /\ clock <= timeout
    /\ clock' = clock + 1
    /\ UNCHANGED <<written, running, sockReset, timeout, stdin, delivered, pc, ready,
                   streamData, sockOpen, wrShut, outcome, containerUp, timedOut>>
    /\ UNCHANGED <<parserVars, tarVars, lifeVars, sockErr, lim, appVars>>

\* select.select on the socket: readable when data, end of stream or an
\* error is pending; writable when asked for and the socket takes data.
Readable == sockReset \/ pos < written \/ ~running
SelectResults(want_write) ==
    { [r |-> Readable, w |-> w] : w \in (IF want_write THEN BOOLEAN ELSE {FALSE}) }

\* The errors a read may raise now: a reset once the peer has reset the
\* connection; an interrupted or would-block call while the stream is open.
ReadErrors ==
    (IF sockReset THEN {"reset"} ELSE {})
        \cup (IF ~sockReset /\ running THEN {"recoverable"} ELSE {})

\* The errors a write may raise now: a broken pipe once the peer is gone; an
\* interrupted or would-block call while it is there.
WriteErrors ==
    (IF sockReset \/ ~running THEN {"pipe"} ELSE {})
        \cup (IF ~sockReset /\ running THEN {"recoverable"} ELSE {})

(***************************************************************************)
(* DockerClientManager.docker_communicate  (src/app/core/sandbox/docker.py)*)
(***************************************************************************)
\* DockerClientManager.demultiplex_docker_stream
RECURSIVE DemultiplexFrom(_, _, _, _)
DemultiplexFrom(data, walker, out, err) ==
    IF Len(data) - walker >= 8
    THEN LET stream_type == data[walker + 1]
             length == UnpackLength(SubSeq(data, walker + 1, walker + STREAM_HEADER_SIZE))
             start == walker + STREAM_HEADER_SIZE
             end == start + length
             chunk == SubSeq(data, start + 1, Min(end, Len(data)))
         IN  DemultiplexFrom(data, end,
                             IF stream_type = 1 THEN out \o chunk ELSE out,
                             IF stream_type = 2 THEN err \o chunk ELSE err)
    ELSE <<out, err>>

DemultiplexDockerStream(data) == DemultiplexFrom(data, 0, <<>>, <<>>)

\* lines 206-213 with _socket_read (147-155): a recoverable errno gives b""
\* and the loop goes on; ConnectionResetError breaks
CommAfterReadError(err) == IF err = "recoverable" THEN "continue" ELSE "break"

\* lines 221-228 with _socket_write (157-163): a recoverable errno writes 0
\* bytes and the loop goes on; BrokenPipeError breaks
CommAfterWriteError(err) == IF err = "recoverable" THEN "continue" ELSE "break"

\* lines 181-199: attach, shut the write half if there is no stdin, start
CommAttach ==
    /\ pc = "c_attach"
    /\ sockOpen' = TRUE
    /\ wrShut' = IF stdin = <<>> THEN wrShut + 1 ELSE wrShut
    /\ running' = TRUE
    /\ pc' = "c_top"
    /\ UNCHANGED <<written, sockReset, clock, timeout, stdin, delivered, ready,
                   streamData, outcome, containerUp, timedOut>>
    /\ UNCHANGED <<parserVars, tarVars, lifeVars, sockErr, lim, appVars>>

\* line 201-202 and 238-240: the while condition; select, or the else branch
CommTop ==
    /\ pc = "c_top"
    /\ IF clock < timeout
       THEN /\ ready' \in SelectResults(TRUE)
            /\ pc' = "c_read"
            /\ UNCHANGED <<sockOpen, outcome, timedOut>>
       ELSE /\ timedOut' = TRUE
            /\ sockOpen' = FALSE
            /\ outcome' = RaisedError("TimeoutError")
            /\ pc' = "done"
            /\ UNCHANGED ready
    /\ UNCHANGED <<written, running, sockReset, clock, timeout, stdin, delivered,
                   streamData, wrShut, containerUp>>
    /\ UNCHANGED <<parserVars, tarVars, lifeVars, sockErr, lim, appVars>>

\* lines 204-217 with _socket_read (147-155)
CommRead ==
    /\ pc = "c_read"
    /\ IF ~ready.r
       THEN /\ pc' = "c_write"
            /\ UNCHANGED <<pos, streamData, sockErr>>
       ELSE \/ /\ ~sockReset /\ pos < written   \* data
               /\ streamData' = streamData \o SubSeq(stream, pos + 1, written)
               /\ pos' = written
               /\ sockErr' = [sockErr EXCEPT !.r = ""]
               /\ pc' = "c_write"
            \/ /\ ~sockReset /\ pos = written /\ ~running   \* EOF: data is None
               /\ sockErr' = [sockErr EXCEPT !.r = ""]
               /\ pc' = "c_close"
               /\ UNCHANGED <<pos, streamData>>
            \/ \E err \in ReadErrors :
                /\ sockErr' = [sockErr EXCEPT !.r = err]
                /\ pc' = IF CommAfterReadError(err) = "break" THEN "c_close" ELSE "c_write"
                /\ UNCHANGED <<pos, streamData>>
    /\ UNCHANGED <<written, running, sockReset, clock, timeout, stdin, delivered,
                   ready, sockOpen, wrShut, outcome, containerUp, timedOut>>
    /\ UNCHANGED <<stream, parser, midFrame, emptyFed, tarVars, lifeVars, lim, appVars>>

\* A plausible slip: the write half is shut down after every write.
StdinSentAlways(rest) == TRUE

\* lines 229-230: stdin = stdin[written:]; if not stdin
StdinSent(rest) == rest = <<>>

\* lines 219-237 with _socket_write (157-163): a recoverable errno is a write
\* of 0 bytes, after which lines 229-234 run as after any write
CommWrite ==
    /\ pc = "c_write"
    /\ IF ~(ready.w /\ stdin # <<>>)
       THEN /\ pc' = "c_top"
            /\ UNCHANGED <<stdin, delivered, wrShut, sockErr>>
       ELSE \/ \E err \in WriteErrors :
                /\ sockErr' = [sockErr EXCEPT !.w = err]
                /\ pc' = IF CommAfterWriteError(err) = "break" THEN "c_close" ELSE "c_top"
                /\ wrShut' = IF CommAfterWriteError(err) = "continue" /\ StdinSent(stdin)
                             THEN wrShut + 1 ELSE wrShut
                /\ UNCHANGED <<stdin, delivered>>
            \/ /\ ~sockReset /\ running
               /\ \E n \in 1..Len(stdin) :
                    /\ delivered' = delivered \o SubSeq(stdin, 1, n)
                    /\ stdin' = SubSeq(stdin, n + 1, Len(stdin))
                    /\ wrShut' = IF StdinSent(stdin') THEN wrShut + 1 ELSE wrShut
               /\ sockErr' = [sockErr EXCEPT !.w = ""]
               /\ pc' = "c_top"
    /\ UNCHANGED <<written, running, sockReset, clock, timeout, ready, streamData,
                   sockOpen, outcome, containerUp, timedOut>>
    /\ UNCHANGED <<parserVars, tarVars, lifeVars, lim, appVars>>

\* lines 241-242: after a break
CommClose ==
    /\ pc = "c_close"
    /\ sockOpen' = FALSE
    /\ outcome' = LET d == DemultiplexDockerStream(streamData)
                  IN  ReturnedOutput(d[1], d[2], FALSE)
    /\ pc' = "done"
    /\ UNCHANGED <<written, running, sockReset, clock, timeout, stdin, delivered,
                   ready, streamData, wrShut, containerUp, timedOut>>
    /\ UNCHANGED <<parserVars, tarVars, lifeVars, sockErr, lim, appVars>>

\* A created container and the arguments of one docker_communicate call.
CommInit ==
    /\ stream \in OutStreams
    /\ timeout = MaxTimeout
    /\ stdin \in Stdins
    /\ pc = "c_attach"
    /\ containerUp = TRUE
    /\ written = 0 /\ running = FALSE /\ sockReset = FALSE /\ clock = 0
    /\ delivered = <<>> /\ ready = NotReady /\ streamData = <<>>
    /\ sockOpen = FALSE /\ wrShut = 0 /\ outcome = NoOutcome /\ timedOut = FALSE
    /\ sockErr = NoSockErr /\ eph = NoEph
    /\ fsys = NoFiles /\ seen = NothingSeen /\ lim = NoLim
    /\ dcm = NoDcm /\ tok = NoTok /\ chat = NoChat /\ upl = NoUpl /\ req = NoReq
    /\ pos = 0 /\ parser = NewStreamParser(STREAM_HEADER_SIZE)
    /\ midFrame = FALSE /\ emptyFed = FALSE
    /\ files = <<>> /\ archive = <<>> /\ tarPc = "init"
    /\ readName = <<>> /\ readResult = Raised("")
    /\ images = {} /\ containers = {} /\ sandboxes = NoSandboxes
    /\ scope = [s \in SandboxIds |-> "outside"] /\ threads = IdleThreads
    /\ lastOp = NoOp /\ buildOps = [t \in Tags |-> 0]
    /\ tagHist = [t \in Tags |-> FreshHist(FALSE)]
    /\ spawned = [s \in SandboxIds |-> 0] /\ removals = [s \in SandboxIds |-> 0]

CommNext ==
    \/ CommAttach \/ CommTop \/ CommRead \/ CommWrite \/ CommClose
    \/ ProcWrite \/ ProcExit \/ ConnReset \/ Tick

SpecComm == CommInit /\ [][CommNext]_vars

(***************************************************************************)
(* DockerService.exec_command  (src/app/core/sandbox/docker_client.py)     *)
(*                                                                         *)
(* SpecExecCall is the call from its entry: lines 62-83 create the exec    *)
(* instance and its socket, and line 85 builds the parser.  As written,    *)
(* line 85 calls StreamParser() without the header argument that           *)
(* StreamParser.__init__ (utility.py:10) requires, so the call ends there  *)
(* with a TypeError.  SpecExecLoop is the I/O loop of lines 90-137 from    *)
(* the state lines 85-88 are written to establish: a parser for 8-byte     *)
(* headers (STREAM_HEADER_SIZE), start_time taken, timed_out false.        *)
(***************************************************************************)
\* A plausible slip: the reader's exception is left to propagate.
ExecAfterRecvErrorRaise(err) == "raise"

\* lines 105-112: except (OSError, ConnectionResetError): break -- every
\* OSError of recv, the interrupted and would-block ones included
ExecAfterRecvError(err) == "break"

\* A plausible slip: a failed send ends the loop, as in docker_communicate.
ExecAfterSendErrorBreak(err) == "break"

\* lines 114-119: except (OSError, BrokenPipeError): stdin_view = None --
\* every OSError of send, the interrupted and would-block ones included
ExecAfterSendError(err) == "drop_stdin"

\* lines 62-83: exec_create and exec_start; an APIError becomes
\* DockerOperationsError
ExecSetup ==
    /\ pc = "e_setup"
    /\ \/ /\ outcome' = RaisedError("DockerOperationsError")
          /\ pc' = "done"
          /\ UNCHANGED <<sockOpen, running>>
       \/ /\ containerUp
          /\ sockOpen' = TRUE
          /\ running' = TRUE
          /\ pc' = "e_parser"
          /\ UNCHANGED outcome
    /\ UNCHANGED <<written, sockReset, clock, timeout, stdin, delivered, ready,
                   streamData, wrShut, containerUp, timedOut>>
    /\ UNCHANGED <<parserVars, tarVars, lifeVars, sockErr, lim, appVars>>

\* line 85: parser = StreamParser()  -- __init__ is missing its header argument
ExecNewParser ==
    /\ pc = "e_parser"
    /\ outcome' = RaisedError("TypeError")
    /\ pc' = "done"
    /\ UNCHANGED <<written, running, sockReset, clock, timeout, stdin, delivered,
                   ready, streamData, sockOpen, wrShut, containerUp, timedOut>>
    /\ UNCHANGED <<parserVars, tarVars, lifeVars, sockErr, lim, appVars>>

\* A plausible slip: the socket is closed after the loop, not in a finally
\* clause, so an exception that leaves the loop leaves the socket as it was.
CloseAfterLoopOnly(open) == open

\* lines 121-122: finally: sock.close() -- runs as well when an exception
\* leaves the loop
CloseOnRaise(open) == FALSE

\* A plausible slip: the deadline is never checked.
DeadlineNeverPassed(now, limit) == FALSE

\* line 92: time.time() - start_time > timeout
DeadlinePassed(now, limit) == now > limit

\* lines 92-97: the deadline check, then select with the 0.1 s poll interval
ExecTop ==
    /\ pc = "e_top"
    /\ IF DeadlinePassed(clock, timeout)
       THEN /\ timedOut' = TRUE
            /\ pc' = "e_finally"
            /\ UNCHANGED ready
       ELSE /\ ready' \in SelectResults(stdin # <<>>)
            /\ pc' = "e_inspect"
            /\ UNCHANGED timedOut
    /\ UNCHANGED <<written, running, sockReset, clock, timeout, stdin, delivered,
                   streamData, sockOpen, wrShut, outcome, containerUp>>
    /\ UNCHANGED <<parserVars, tarVars, lifeVars, sockErr, lim, appVars>>

\* lines 99-103: the liveness query and the break on "nothing ready, not
\* running"; an APIError of exec_inspect leaves through the finally clause
ExecInspect ==
    /\ pc = "e_inspect"
    /\ \/ /\ pc' = IF ~ready.r /\ ~ready.w /\ ~running THEN "e_finally" ELSE "e_read"
          /\ UNCHANGED <<sockOpen, outcome>>
       \/ /\ sockOpen' = CloseOnRaise(sockOpen)
          /\ outcome' = RaisedError("APIError")
          /\ pc' = "done"
    /\ UNCHANGED <<written, running, sockReset, clock, timeout, stdin, delivered,
                   ready, streamData, wrShut, containerUp, timedOut>>
    /\ UNCHANGED <<parserVars, tarVars, lifeVars, sockErr, lim, appVars>>

\* lines 105-112: recv; any OSError, the recoverable ones included, breaks
ExecRead ==
    /\ pc = "e_read"
    /\ IF ~ready.r
       THEN /\ pc' = "e_write"
            /\ UNCHANGED <<pos, parser, sockErr, sockOpen, outcome>>
       ELSE \/ /\ ~sockReset /\ pos < written   \* data
               /\ parser' = Feed(parser, SubSeq(stream, pos + 1, written))
               /\ pos' = written
               /\ sockErr' = [sockErr EXCEPT !.r = ""]
               /\ pc' = "e_write"
               /\ UNCHANGED <<sockOpen, outcome>>
            \/ /\ ~sockReset /\ pos = written /\ ~running   \* b"": end of stream
               /\ sockErr' = [sockErr EXCEPT !.r = ""]
               /\ pc' = "e_finally"
               /\ UNCHANGED <<pos, parser, sockOpen, outcome>>
            \/ \E err \in ReadErrors :
                /\ sockErr' = [sockErr EXCEPT !.r = err]
                /\ UNCHANGED <<pos, parser>>
                /\ CASE ExecAfterRecvError(err) = "break" ->
                            pc' = "e_finally" /\ UNCHANGED <<sockOpen, outcome>>
                     [] ExecAfterRecvError(err) = "raise" ->
                            /\ pc' = "done" /\ sockOpen' = CloseOnRaise(sockOpen)
                            /\ outcome' = RaisedError("OSError")
                     [] OTHER -> pc' = "e_write" /\ UNCHANGED <<sockOpen, outcome>>
    /\ UNCHANGED <<stream, midFrame, emptyFed>>
    /\ UNCHANGED <<written, running, sockReset, clock, timeout, stdin, delivered,
                   ready, streamData, wrShut, containerUp, timedOut>>
    /\ UNCHANGED <<tarVars, lifeVars, lim, appVars>>

\* A plausible slip: after a send the whole view is taken as sent.
AdvanceStdinAll(stdin_view, sent) == <<>>

\* line 117: stdin_view = stdin_view[sent:]
AdvanceStdin(stdin_view, sent) == SubSeq(stdin_view, sent + 1, Len(stdin_view))

\* lines 114-119: send; any OSError drops the rest of stdin
ExecWrite ==
    /\ pc = "e_write"
    /\ IF ~(ready.w /\ stdin # <<>>)
       THEN /\ pc' = "e_top"
            /\ UNCHANGED <<stdin, delivered, sockErr>>
       ELSE \/ \E err \in WriteErrors :
                /\ sockErr' = [sockErr EXCEPT !.w = err]
                /\ stdin' = IF ExecAfterSendError(err) = "drop_stdin" THEN <<>> ELSE stdin
                /\ pc' = IF ExecAfterSendError(err) = "break" THEN "e_finally" ELSE "e_top"
                /\ UNCHANGED delivered
            \/ /\ ~sockReset /\ running
               /\ \E sent \in 1..Len(stdin) :
                    /\ delivered' = delivered \o SubSeq(stdin, 1, sent)
                    /\ stdin' = AdvanceStdin(stdin, sent)
               /\ sockErr' = [sockErr EXCEPT !.w = ""]
               /\ pc' = "e_top"
    /\ UNCHANGED <<written, running, sockReset, clock, timeout, ready, streamData,
                   sockOpen, wrShut, outcome, containerUp, timedOut>>
    /\ UNCHANGED <<parserVars, tarVars, lifeVars, lim, appVars>>

\* lines 121-122: finally: sock.close()
ExecFinally ==
    /\ pc = "e_finally"
    /\ sockOpen' = FALSE
    /\ pc' = "e_final"
    /\ UNCHANGED <<written, running, sockReset, clock, timeout, stdin, delivered,
                   ready, streamData, wrShut, outcome, containerUp, timedOut>>
    /\ UNCHANGED <<parserVars, tarVars, lifeVars, sockErr, lim, appVars>>

\* lines 130-136: the returned dict has the keys stdout, stderr, exit_code
\* (final_inspect.get("ExitCode")), timed_out and duration, and no oom_killed
ExecResult(out, err, timed_out, fate) ==
    [ReturnedOutput(out, err, timed_out) EXCEPT !.exit_code = fate.exit,
                                                !.fate = fate]

\* lines 124-137: the parser's output, the final exec_inspect (its APIError
\* is not caught), the warning on a timeout, the returned dict
ExecFinal ==
    /\ pc = "e_final"
    /\ \/ \E fate \in Fates(running) :
            outcome' = ExecResult(GetOutput(parser)[1], GetOutput(parser)[2],
                                  timedOut, fate)
       \/ outcome' = RaisedError("APIError")
    /\ pc' = "done"
    /\ UNCHANGED <<written, running, sockReset, clock, timeout, stdin, delivered,
                   ready, streamData, sockOpen, wrShut, containerUp, timedOut>>
    /\ UNCHANGED <<parserVars, tarVars, lifeVars, sockErr, lim, appVars>>

\* A running container and the arguments of one exec_command call.
ExecCallInit ==
    /\ stream \in OutStreams
    /\ timeout = MaxTimeout
    /\ stdin \in Stdins
    /\ containerUp \in BOOLEAN
    /\ pc = "e_setup"
    /\ written = 0 /\ running = FALSE /\ sockReset = FALSE /\ clock = 0
    /\ delivered = <<>> /\ ready = NotReady /\ streamData = <<>>
    /\ sockOpen = FALSE /\ wrShut = 0 /\ outcome = NoOutcome /\ timedOut = FALSE
    /\ sockErr = NoSockErr /\ eph = NoEph
    /\ fsys = NoFiles /\ seen = NothingSeen /\ lim = NoLim
    /\ dcm = NoDcm /\ tok = NoTok /\ chat = NoChat /\ upl = NoUpl /\ req = NoReq
    /\ pos = 0 /\ parser = NewStreamParser(STREAM_HEADER_SIZE)
    /\ midFrame = FALSE /\ emptyFed = FALSE
    /\ files = <<>> /\ archive = <<>> /\ tarPc = "init"
    /\ readName = <<>> /\ readResult = Raised("")
    /\ images = {} /\ containers = {} /\ sandboxes = NoSandboxes
    /\ scope = [s \in SandboxIds |-> "outside"] /\ threads = IdleThreads
    /\ lastOp = NoOp /\ buildOps = [t \in Tags |-> 0]
    /\ tagHist = [t \in Tags |-> FreshHist(FALSE)]
    /\ spawned = [s \in SandboxIds |-> 0] /\ removals = [s \in SandboxIds |-> 0]

\* The state on entering the loop at line 90.
ExecLoopInit ==
    /\ stream \in OutStreams
    /\ timeout = MaxTimeout
    /\ stdin \in Stdins
    /\ containerUp = TRUE
    /\ pc = "e_top"
    /\ sockOpen = TRUE /\ running = TRUE
    /\ written = 0 /\ sockReset = FALSE /\ clock = 0
    /\ delivered = <<>> /\ ready = NotReady /\ streamData = <<>>
    /\ wrShut = 0 /\ outcome = NoOutcome /\ timedOut = FALSE
    /\ sockErr = NoSockErr /\ eph = NoEph
    /\ fsys = NoFiles /\ seen = NothingSeen /\ lim = NoLim
    /\ dcm = NoDcm /\ tok = NoTok /\ chat = NoChat /\ upl = NoUpl /\ req = NoReq
    /\ pos = 0 /\ parser = NewStreamParser(STREAM_HEADER_SIZE)
    /\ midFrame = FALSE /\ emptyFed = FALSE
    /\ files = <<>> /\ archive = <<>> /\ tarPc = "init"
    /\ readName = <<>> /\ readResult = Raised("")
    /\ images = {} /\ containers = {} /\ sandboxes = NoSandboxes
    /\ scope = [s \in SandboxIds |-> "outside"] /\ threads = IdleThreads
    /\ lastOp = NoOp /\ buildOps = [t \in Tags |-> 0]
    /\ tagHist = [t \in Tags |-> FreshHist(FALSE)]
    /\ spawned = [s \in SandboxIds |-> 0] /\ removals = [s \in SandboxIds |-> 0]

ExecCallNext ==
    \/ ExecSetup \/ ExecNewParser
    \/ ProcWrite \/ ProcExit \/ ConnReset

ExecLoopNext ==
    \/ ExecTop \/ ExecInspect \/ ExecRead \/ ExecWrite \/ ExecFinally \/ ExecFinal
    \/ ProcWrite \/ ProcExit \/ ConnReset \/ Tick

SpecExecCall == ExecCallInit /\ [][ExecCallNext]_vars

SpecExecLoop == ExecLoopInit /\ [][ExecLoopNext]_vars

\* The streams and stdins of the termination check: nothing at all, or as
\* much as the bounds allow.
TermStreams == { <<>>, Wire([i \in 1..MaxOutFrames |-> [type |-> 1, payload |-> <<1>>]]) }
TermStdins == { <<>>, [i \in 1..MaxStdin |-> i] }

\* The state on entering the loop at line 90, for the termination check.
ExecFairInit ==
    /\ stream \in TermStreams
    /\ timeout = MaxTimeout
    /\ stdin \in TermStdins
    /\ containerUp = TRUE
    /\ pc = "e_top"
    /\ sockOpen = TRUE /\ running = TRUE
    /\ written = 0 /\ sockReset = FALSE /\ clock = 0
    /\ delivered = <<>> /\ ready = NotReady /\ streamData = <<>>
    /\ wrShut = 0 /\ outcome = NoOutcome /\ timedOut = FALSE
    /\ sockErr = NoSockErr /\ eph = NoEph
    /\ fsys = NoFiles /\ seen = NothingSeen /\ lim = NoLim
    /\ dcm = NoDcm /\ tok = NoTok /\ chat = NoChat /\ upl = NoUpl /\ req = NoReq
    /\ pos = 0 /\ parser = NewStreamParser(STREAM_HEADER_SIZE)
    /\ midFrame = FALSE /\ emptyFed = FALSE
    /\ files = <<>> /\ archive = <<>> /\ tarPc = "init"
    /\ readName = <<>> /\ readResult = Raised("")
    /\ images = {} /\ containers = {} /\ sandboxes = NoSandboxes
    /\ scope = [s \in SandboxIds |-> "outside"] /\ threads = IdleThreads
    /\ lastOp = NoOp /\ buildOps = [t \in Tags |-> 0]
    /\ tagHist = [t \in Tags |-> FreshHist(FALSE)]
    /\ spawned = [s \in SandboxIds |-> 0] /\ removals = [s \in SandboxIds |-> 0]

\* The stdin of k bytes: byte i is 16 * k + i, so that any byte tells which
\* stdin it is from and where in it.
StdinOfLen(k) == [i \in 1..k |-> 16 * k + i]
LongStdins == { StdinOfLen(k) : k \in 0..MaxStdin + 2 }

\* The state on entering the loop at line 90 with a stdin of several bytes.
ExecStdinInit ==
    /\ stream \in TermStreams
    /\ timeout = MaxTimeout
    /\ stdin \in LongStdins
    /\ containerUp = TRUE
    /\ pc = "e_top"
    /\ sockOpen = TRUE /\ running = TRUE
    /\ written = 0 /\ sockReset = FALSE /\ clock = 0
    /\ delivered = <<>> /\ ready = NotReady /\ streamData = <<>>
    /\ wrShut = 0 /\ outcome = NoOutcome /\ timedOut = FALSE
    /\ sockErr = NoSockErr /\ eph = NoEph
    /\ fsys = NoFiles /\ seen = NothingSeen /\ lim = NoLim
    /\ dcm = NoDcm /\ tok = NoTok /\ chat = NoChat /\ upl = NoUpl /\ req = NoReq
    /\ pos = 0 /\ parser = NewStreamParser(STREAM_HEADER_SIZE)
    /\ midFrame = FALSE /\ emptyFed = FALSE
    /\ files = <<>> /\ archive = <<>> /\ tarPc = "init"
    /\ readName = <<>> /\ readResult = Raised("")
    /\ images = {} /\ containers = {} /\ sandboxes = NoSandboxes
    /\ scope = [s \in SandboxIds |-> "outside"] /\ threads = IdleThreads
    /\ lastOp = NoOp /\ buildOps = [t \in Tags |-> 0]
    /\ tagHist = [t \in Tags |-> FreshHist(FALSE)]
    /\ spawned = [s \in SandboxIds |-> 0] /\ removals = [s \in SandboxIds |-> 0]

SpecExecStdin == ExecStdinInit /\ [][ExecLoopNext]_vars

\* A step of the call itself: every call it makes returns or raises (select
\* after its poll interval at the latest, the daemon's queries, recv and send
\* on a socket select reported ready).
ExecStep ==
    ExecTop \/ ExecInspect \/ ExecRead \/ ExecWrite \/ ExecFinally \/ ExecFinal

\* The exec_command loop under fair scheduling: the call keeps taking steps
\* and, while it passes through the top of the loop again and again, time
\* passes.  The daemon, the command and the socket are under no obligation.
SpecExecFair ==
    /\ ExecFairInit /\ [][ExecLoopNext]_vars
    /\ WF_vars(ExecStep)
    /\ SF_vars(Tick)

(***************************************************************************)
(* Image manager, sandbox manager and sandbox lifecycle                    *)
(*                                                                         *)
(* ImageManager.build_profile, DockerService.spawn_container/copy_to/      *)
(* copy_from/remove_container and Sandbox.__enter__/__exit__ are taken     *)
(* from src.  The Sandbox lifecycle methods (start, write_files, exec,     *)
(* read_file, stop) and SandboxManager.create of the DockerService design  *)
(* are called from src/app/core/orchestrator/nodes/eda.py but are not      *)
(* defined in src (src/app/core/sandbox/manager.py holds the earlier       *)
(* SandboxManager); they follow sections 4.5 and 4.6 of the specification. *)
(***************************************************************************)
\* config.get_profile(profile_name)
GetProfile(name) == IF name \in ProfileNames THEN "ok" ELSE "ProfileNotFound"

\* The daemon's answers to client.images.get(tag): the image, ImageNotFound,
\* or another error.
ImagesGet(imgs, tag) ==
    IF tag \in imgs THEN {"found", "error"} ELSE {"not_found", "error"}

\* The daemon's answers to client.images.build(...): the image is built, the
\* recipe fails (docker.errors.BuildError), or the call itself fails
\* (docker.errors.APIError).
ImagesBuild == {"built", "docker.errors.BuildError", "docker.errors.APIError"}

\* build_profile lines 51-57: return the tag if the image is there; any
\* exception of images.get falls through to the build
AfterImagesGet(answer) == IF answer = "found" THEN "return" ELSE "build"

\* A plausible slip: the build's exception is logged and the tag returned.
AfterImagesBuildSwallow(answer) == "return"

\* build_profile lines 67-79: return the tag, or re-raise the build's exception
AfterImagesBuild(answer) == IF answer = "built" THEN "return" ELSE "raise"

\* lines 76 and 79: "return tag", or "raise e" with e the exception caught
BuildProfileResult(tag, answer) ==
    IF AfterImagesBuild(answer) = "return" THEN tag ELSE answer

\* A plausible slip: the handle is returned without a container being run.
SpawnContainerNoRun(cs, imgs, name, profile) ==
    IF Image(profile) \in imgs /\ name \notin cs
    THEN { [containers |-> cs, result |-> "ok"],
           [containers |-> cs, result |-> "DockerOperationsError"] }
    ELSE { [containers |-> cs, result |-> "DockerOperationsError"] }

\* DockerService.spawn_container: containers.run(image=profile.image, name=name,
\* detach=True, ...); an APIError (no such image, name in use, daemon error)
\* becomes DockerOperationsError
SpawnContainer(cs, imgs, name, profile) ==
    IF Image(profile) \in imgs /\ name \notin cs
    THEN { [containers |-> cs \cup {name}, result |-> "ok"],
           [containers |-> cs, result |-> "DockerOperationsError"] }
    ELSE { [containers |-> cs, result |-> "DockerOperationsError"] }

\* DockerService.copy_to / copy_from: put_archive / get_archive; an APIError
\* (NotFound included) becomes DockerOperationsError
CopyTo(cs, name) ==
    IF name \in cs THEN {"ok", "DockerOperationsError"} ELSE {"DockerOperationsError"}
CopyFrom(cs, name) ==
    IF name \in cs THEN {"ok", "DockerOperationsError"} ELSE {"DockerOperationsError"}

\* DockerService.exec_command as seen by its caller: DockerOperationsError
\* when the exec set-up fails, else the TypeError of line 85 (SpecExecCall)
ExecCommand(cs, name) ==
    IF name \in cs THEN {"TypeError", "DockerOperationsError"} ELSE {"DockerOperationsError"}

\* A plausible slip: the removal's exception is not caught.
RemoveContainerRaising(cs, name) ==
    IF name \in cs
    THEN { [containers |-> cs \ {name}, result |-> "ok"],
           [containers |-> cs, result |-> "APIError"] }
    ELSE { [containers |-> cs, result |-> "NotFound"] }

\* The daemon's answers to container.remove(force=True).
RemoveAnswers(cs, name) ==
    IF name \in cs THEN {"removed", "APIError", "ConnectionError"}
    ELSE {"NotFound", "ConnectionError"}

\* A plausible slip: only the daemon's API errors are caught.
AfterRemoveErrorApiOnly(answer) ==
    IF answer \in {"APIError", "NotFound"} THEN "swallow" ELSE "raise"

\* remove_container lines 156-157: except Exception: logger.exception(...)
AfterRemoveError(answer) == "swallow"

\* DockerService.remove_container: container.remove(force=True); every
\* exception is logged and swallowed
RemoveContainer(cs, name) ==
    { [containers |-> IF a = "removed" THEN cs \ {name} ELSE cs,
       result |-> IF a = "removed" \/ AfterRemoveError(a) = "swallow" THEN "ok" ELSE a]
      : a \in RemoveAnswers(cs, name) }

\* A plausible slip: a lifecycle method without its state check.
RequireStateAny(state, wanted) == TRUE

\* Sandbox: the state check at the head of each lifecycle method
RequireState(state, wanted) == state = wanted

OtherCallsFor(t, profile) ==
    \E u \in DOMAIN threads : u # t /\ threads[u].pc # "idle" /\ threads[u].profile = profile

FreeIds ==
    IF Cardinality({ s \in SandboxIds : sandboxes[s].state # "absent" }) < MaxCreated
    THEN { s \in SandboxIds : sandboxes[s].state = "absent" }
    ELSE {}

\* build_profile returns or raises; SandboxManager.create then constructs a
\* not-started Sandbox if build_profile returned the tag.
Complete(t, result, built) ==
    LET th == threads[t]
        tag == Image(th.profile)
    IN  /\ threads' = [threads EXCEPT ![t] = IdleThread]
        /\ lastOp' = Op(IF th.kind = "create" THEN "create" ELSE "build_profile",
                        t, result, <<>>, built)
        /\ IF th.kind = "create" /\ result = tag /\ FreeIds # {}
           THEN LET new == CHOOSE s \in FreeIds : \A o \in FreeIds : s <= o
                IN  sandboxes' = [sandboxes EXCEPT
                                    ![new] = [state |-> "NOT_STARTED", profile |-> th.profile]]
           ELSE UNCHANGED sandboxes

\* build_profile line 48 (and SandboxManager.create calling it)
BuildProfileCall(t) ==
    /\ threads[t].pc = "idle"
    /\ \E name \in ProfileNames \cup {UnknownProfile}, force \in BOOLEAN,
          kind \in {"ensure", "create"} :
        /\ kind = "create" => FreeIds # {} /\ ~force
        /\ IF GetProfile(name) # "ok"
           THEN /\ lastOp' = Op(IF kind = "create" THEN "create" ELSE "build_profile",
                               t, GetProfile(name), <<>>, 0)
                /\ UNCHANGED <<threads, tagHist>>
           ELSE /\ threads' = [threads EXCEPT ![t] =
                      [pc |-> IF force THEN "build" ELSE "query",
                       profile |-> name, force |-> force, kind |-> kind]]
                /\ tagHist' = [tagHist EXCEPT
                      ![Image(name)].plain = @ /\ ~force /\ ~OtherCallsFor(t, name),
                      ![Image(name)].unforced = @ /\ ~force]
                /\ lastOp' = Op("get_profile", t, "ok", <<>>, 0)
    /\ UNCHANGED <<images, containers, sandboxes, scope, buildOps, spawned, removals>>
    /\ UNCHANGED <<parserVars, tarVars, ioVars, eph, fsys, seen, lim, appVars>>

\* build_profile lines 51-57
BuildProfileQuery(t) ==
    /\ threads[t].pc = "query"
    /\ LET tag == Image(threads[t].profile)
       IN  \E answer \in ImagesGet(images, tag) :
            /\ tagHist' = [tagHist EXCEPT
                  ![tag].faultFree = @ /\ ~(answer = "error" /\ tag \in images),
                  ![tag].called = @ \/ AfterImagesGet(answer) = "return"]
            /\ IF AfterImagesGet(answer) = "return"
               THEN Complete(t, tag, 0)
               ELSE /\ threads' = [threads EXCEPT ![t].pc = "build"]
                    /\ lastOp' = Op("images.get", t, answer, <<>>, 0)
                    /\ UNCHANGED sandboxes
    /\ UNCHANGED <<images, containers, scope, buildOps, spawned, removals>>
    /\ UNCHANGED <<parserVars, tarVars, ioVars, eph, fsys, seen, lim, appVars>>

\* A plausible slip for this design: builds of a tag are serialized and the
\* image is looked for again before building.
BuildProfileBuildLocked(t) ==
    /\ threads[t].pc = "build"
    /\ LET tag == Image(threads[t].profile)
       IN  IF tag \in images /\ ~threads[t].force
           THEN /\ tagHist' = [tagHist EXCEPT ![tag].called = TRUE]
                /\ Complete(t, tag, 0)
                /\ UNCHANGED <<buildOps, images>>
           ELSE /\ buildOps[tag] < MaxBuilds
                /\ \E answer \in ImagesBuild :
                     /\ buildOps' = [buildOps EXCEPT ![tag] = @ + 1]
                     /\ images' = IF answer = "built" THEN images \cup {tag} ELSE images
                     /\ tagHist' = [tagHist EXCEPT
                           ![tag].faultFree = @ /\ answer = "built",
                           ![tag].called = TRUE]
                     /\ Complete(t, BuildProfileResult(tag, answer), 1)
    /\ UNCHANGED <<containers, scope, spawned, removals>>
    /\ UNCHANGED <<parserVars, tarVars, ioVars, eph, fsys, seen, lim, appVars>>

\* build_profile lines 59-79
BuildProfileBuild(t) ==
    /\ threads[t].pc = "build"
    /\ LET tag == Image(threads[t].profile)
       IN  /\ buildOps[tag] < MaxBuilds
           /\ \E answer \in ImagesBuild :
                /\ buildOps' = [buildOps EXCEPT ![tag] = @ + 1]
                /\ images' = IF answer = "built" THEN images \cup {tag} ELSE images
                /\ tagHist' = [tagHist EXCEPT
                      ![tag].faultFree = @ /\ answer = "built",
                      ![tag].called = TRUE]
                /\ Complete(t, BuildProfileResult(tag, answer), 1)
    /\ UNCHANGED <<containers, scope, spawned, removals>>
    /\ UNCHANGED <<parserVars, tarVars, ioVars, eph, fsys, seen, lim, appVars>>

Running(s) == sandboxes[s].state = "RUNNING"

\* Sandbox.start()
Start(s) ==
    /\ sandboxes[s].state # "absent"
    /\ IF ~RequireState(sandboxes[s].state, "NOT_STARTED")
       THEN /\ lastOp' = Op("start", s, "AlreadyStarted", <<>>, 0)
            /\ UNCHANGED <<containers, sandboxes, spawned>>
       ELSE \E r \in SpawnContainer(containers, images, s, sandboxes[s].profile) :
            /\ containers' = r.containers
            /\ lastOp' = Op("start", s, r.result, <<"spawn_container">>, 0)
            /\ IF r.result = "ok"
               THEN /\ sandboxes' = [sandboxes EXCEPT ![s].state = "RUNNING"]
                    /\ spawned' = [spawned EXCEPT ![s] = @ + 1]
               ELSE UNCHANGED <<sandboxes, spawned>>
    /\ UNCHANGED <<images, scope, threads, buildOps, tagHist, removals>>
    /\ UNCHANGED <<parserVars, tarVars, ioVars, eph, fsys, seen, lim, appVars>>

\* Sandbox.write_files(files), exec(command, ...), read_file(path)
FileOp(s) ==
    /\ sandboxes[s].state # "absent"
    /\ \E op \in {"write_files", "exec", "read_file"} :
        IF ~RequireState(sandboxes[s].state, "RUNNING")
        THEN lastOp' = Op(op, s, "NotRunning", <<>>, 0)
        ELSE \E r \in (CASE op = "write_files" -> CopyTo(containers, s)
                         [] op = "exec" -> ExecCommand(containers, s)
                         [] OTHER -> CopyFrom(containers, s)) :
                lastOp' = Op(op, s, r,
                             CASE op = "write_files" -> <<"copy_to">>
                               [] op = "exec" -> <<"exec_command">>
                               [] OTHER -> <<"copy_from">>, 0)
    /\ UNCHANGED <<images, containers, sandboxes, scope, threads, buildOps, tagHist,
                   spawned, removals>>
    /\ UNCHANGED <<parserVars, tarVars, ioVars, eph, fsys, seen, lim, appVars>>

\* Sandbox.stop()
Stop(s) ==
    /\ sandboxes[s].state # "absent"
    /\ IF ~RequireState(sandboxes[s].state, "RUNNING")
       THEN /\ lastOp' = Op("stop", s, "ok", <<>>, 0)
            /\ UNCHANGED <<containers, sandboxes, removals>>
       ELSE \E r \in RemoveContainer(containers, s) :
            /\ containers' = r.containers
            /\ removals' = [removals EXCEPT ![s] = @ + 1]
            /\ lastOp' = Op("stop", s, r.result, <<"remove_container">>, 0)
            /\ IF r.result = "ok"
               THEN sandboxes' = [sandboxes EXCEPT ![s].state = "STOPPED"]
               ELSE UNCHANGED sandboxes
    /\ UNCHANGED <<images, scope, threads, buildOps, tagHist, spawned>>
    /\ UNCHANGED <<parserVars, tarVars, ioVars, eph, fsys, seen, lim, appVars>>

\* spawn_container lines 35 and 46: the container runs "sleep max_session_ttl"
\* with auto_remove=True, so the daemon removes it when the session time is up
SessionExpires(s) ==
    /\ s \in containers
    /\ containers' = containers \ {s}
    /\ lastOp' = Op("expire", s, "ok", <<>>, 0)
    /\ UNCHANGED <<images, sandboxes, scope, threads, buildOps, tagHist, spawned,
                   removals>>
    /\ UNCHANGED <<parserVars, tarVars, ioVars, eph, fsys, seen, lim, appVars>>

\* Sandbox.__enter__ (manager.py:29-30): return self
Enter(s) ==
    /\ sandboxes[s].state # "absent"
    /\ scope[s] = "outside"
    /\ scope' = [scope EXCEPT ![s] = "inside"]
    /\ lastOp' = Op("__enter__", s, "ok", <<>>, 0)
    /\ UNCHANGED <<images, containers, sandboxes, threads, buildOps, tagHist,
                   spawned, removals>>
    /\ UNCHANGED <<parserVars, tarVars, ioVars, eph, fsys, seen, lim, appVars>>

Raises(op) == op.result \in {"DockerOperationsError", "TypeError", "NotRunning",
                             "AlreadyStarted", "APIError", "NotFound"}

\* Sandbox.__exit__ (manager.py:32-34): pass.  The block is left by its end
\* or by the exception of the operation it has just run on the sandbox.
Exit(s) ==
    /\ scope[s] = "inside"
    /\ scope' = [scope EXCEPT ![s] = "left"]
    /\ lastOp' = Op("__exit__", s,
                    IF lastOp.id = s /\ lastOp.op \in {"start", "write_files", "exec",
                                                       "read_file", "stop"}
                       /\ Raises(lastOp)
                    THEN "exception" ELSE "return", <<>>, 0)
    /\ UNCHANGED <<images, containers, sandboxes, threads, buildOps, tagHist,
                   spawned, removals>>
    /\ UNCHANGED <<parserVars, tarVars, ioVars, eph, fsys, seen, lim, appVars>>

\* A daemon with some images already built, and no sandbox yet.
Init ==
    /\ images \in SUBSET Tags
    /\ containers = {}
    /\ sandboxes = NoSandboxes
    /\ scope = [s \in SandboxIds |-> "outside"]
    /\ threads = IdleThreads
    /\ lastOp = NoOp
    /\ buildOps = [t \in Tags |-> 0]
    /\ tagHist = [t \in Tags |-> FreshHist(t \notin images)]
    /\ spawned = [s \in SandboxIds |-> 0]
    /\ removals = [s \in SandboxIds |-> 0]
    /\ stream = <<>> /\ pos = 0 /\ parser = NewStreamParser(STREAM_HEADER_SIZE)
    /\ midFrame = FALSE /\ emptyFed = FALSE
    /\ files = <<>> /\ archive = <<>> /\ tarPc = "init"
    /\ readName = <<>> /\ readResult = Raised("")
    /\ written = 0 /\ running = FALSE /\ sockReset = FALSE /\ clock = 0
    /\ timeout = 0 /\ stdin = <<>> /\ delivered = <<>> /\ pc = "idle"
    /\ ready = NotReady /\ streamData = <<>> /\ sockOpen = FALSE /\ wrShut = 0
    /\ outcome = NoOutcome /\ containerUp = FALSE /\ timedOut = FALSE
    /\ sockErr = NoSockErr /\ eph = NoEph
    /\ fsys = NoFiles /\ seen = NothingSeen /\ lim = NoLim
    /\ dcm = NoDcm /\ tok = NoTok /\ chat = NoChat /\ upl = NoUpl /\ req = NoReq

Next ==
    \/ \E t \in Callers : BuildProfileCall(t) \/ BuildProfileQuery(t) \/ BuildProfileBuild(t)
    \/ \E s \in SandboxIds : Start(s) \/ FileOp(s) \/ Stop(s) \/ SessionExpires(s)

Spec == Init /\ [][Next]_vars

\* Concurrent callers of build_profile: one more than the callers of Spec.
Builders == 1..MaxCallers + 1

BuildInit ==
    /\ images \in SUBSET Tags
    /\ containers = {}
    /\ sandboxes = NoSandboxes
    /\ scope = [s \in SandboxIds |-> "outside"]
    /\ threads = [t \in Builders |-> IdleThread]
    /\ lastOp = NoOp
    /\ buildOps = [t \in Tags |-> 0]
    /\ tagHist = [t \in Tags |-> FreshHist(t \notin images)]
    /\ spawned = [s \in SandboxIds |-> 0]
    /\ removals = [s \in SandboxIds |-> 0]
    /\ stream = <<>> /\ pos = 0 /\ parser = NewStreamParser(STREAM_HEADER_SIZE)
    /\ midFrame = FALSE /\ emptyFed = FALSE
    /\ files = <<>> /\ archive = <<>> /\ tarPc = "init"
    /\ readName = <<>> /\ readResult = Raised("")
    /\ written = 0 /\ running = FALSE /\ sockReset = FALSE /\ clock = 0
    /\ timeout = 0 /\ stdin = <<>> /\ delivered = <<>> /\ pc = "idle"
    /\ ready = NotReady /\ streamData = <<>> /\ sockOpen = FALSE /\ wrShut = 0
    /\ outcome = NoOutcome /\ containerUp = FALSE /\ timedOut = FALSE
    /\ sockErr = NoSockErr /\ eph = NoEph
    /\ fsys = NoFiles /\ seen = NothingSeen /\ lim = NoLim
    /\ dcm = NoDcm /\ tok = NoTok /\ chat = NoChat /\ upl = NoUpl /\ req = NoReq

BuildNext ==
    \E t \in Builders : BuildProfileCall(t) \/ BuildProfileQuery(t) \/ BuildProfileBuild(t)

\* build_profile called by several threads at once.
SpecBuild == BuildInit /\ [][BuildNext]_vars

\* Scoped use: the sandboxes have been created for a profile whose image is
\* there, and each is used in a "with sandbox:" block.
ScopeInit ==
    /\ images = Tags
    /\ containers = {}
    /\ sandboxes = [s \in SandboxIds |-> [state |-> "NOT_STARTED", profile |-> "ds"]]
    /\ scope = [s \in SandboxIds |-> "outside"]
    /\ threads = IdleThreads
    /\ lastOp = NoOp
    /\ buildOps = [t \in Tags |-> 0]
    /\ tagHist = [t \in Tags |-> FreshHist(FALSE)]
    /\ spawned = [s \in SandboxIds |-> 0]
    /\ removals = [s \in SandboxIds |-> 0]
    /\ stream = <<>> /\ pos = 0 /\ parser = NewStreamParser(STREAM_HEADER_SIZE)
    /\ midFrame = FALSE /\ emptyFed = FALSE
    /\ files = <<>> /\ archive = <<>> /\ tarPc = "init"
    /\ readName = <<>> /\ readResult = Raised("")
    /\ written = 0 /\ running = FALSE /\ sockReset = FALSE /\ clock = 0
    /\ timeout = 0 /\ stdin = <<>> /\ delivered = <<>> /\ pc = "idle"
    /\ ready = NotReady /\ streamData = <<>> /\ sockOpen = FALSE /\ wrShut = 0
    /\ outcome = NoOutcome /\ containerUp = FALSE /\ timedOut = FALSE
    /\ sockErr = NoSockErr /\ eph = NoEph
    /\ fsys = NoFiles /\ seen = NothingSeen /\ lim = NoLim
    /\ dcm = NoDcm /\ tok = NoTok /\ chat = NoChat /\ upl = NoUpl /\ req = NoReq

ScopeNext ==
    \E s \in SandboxIds :
        Start(s) \/ FileOp(s) \/ Stop(s) \/ SessionExpires(s) \/ Enter(s) \/ Exit(s)

SpecScope == ScopeInit /\ [][ScopeNext]_vars

(***************************************************************************)
(* SandboxManager.run_ephemeral(profile, command, files, stdin)            *)
(*                                                                         *)
(* The one-shot call of section 4.6 of the specification: start, then      *)
(* write_files, then exec, then the guaranteed stop.  It is not in src;    *)
(* the daemon operations it reaches are those of docker_client.py.         *)
(***************************************************************************)
\* A plausible slip: stop is called on the normal path only.
EphAfterNoFinally(step, ok) ==
    CASE step = "start" -> IF ok THEN "write_files" ELSE "done"
      [] step = "write_files" -> IF ok THEN "exec" ELSE "done"
      [] step = "exec" -> IF ok THEN "stop" ELSE "done"
      [] OTHER -> "done"

\* The step that follows a step: a failed start ends the call; after a
\* successful start every path leads to stop.
EphAfter(step, ok) ==
    CASE step = "start" -> IF ok THEN "write_files" ELSE "done"
      [] step = "write_files" -> IF ok THEN "exec" ELSE "stop"
      [] step = "exec" -> "stop"
      [] OTHER -> "done"

EphStep(s, step, result) ==
    eph' = [eph EXCEPT ![s] =
              [pc |-> EphAfter(step, result = "ok"),
               log |-> Append(@.log, step),
               exc |-> IF result = "ok" THEN @.exc ELSE result]]

\* The outcomes of exec_command as shipped, and the result its loop is
\* written to return.
ExecResults(cs, name) ==
    ExecCommand(cs, name) \cup (IF name \in cs THEN {"ok"} ELSE {})

EphStart(s) ==
    /\ eph[s].pc = "start"
    /\ RequireState(sandboxes[s].state, "NOT_STARTED")
    /\ \E r \in SpawnContainer(containers, images, s, sandboxes[s].profile) :
        /\ containers' = r.containers
        /\ IF r.result = "ok"
           THEN /\ sandboxes' = [sandboxes EXCEPT ![s].state = "RUNNING"]
                /\ spawned' = [spawned EXCEPT ![s] = @ + 1]
           ELSE UNCHANGED <<sandboxes, spawned>>
        /\ EphStep(s, "start", r.result)
    /\ UNCHANGED <<images, scope, threads, lastOp, buildOps, tagHist, removals>>
    /\ UNCHANGED <<parserVars, tarVars, ioVars, fsys, seen, lim, appVars>>

EphWriteFiles(s) ==
    /\ eph[s].pc = "write_files"
    /\ \E r \in (IF RequireState(sandboxes[s].state, "RUNNING")
                 THEN CopyTo(containers, s) ELSE {"NotRunning"}) :
        EphStep(s, "write_files", r)
    /\ UNCHANGED <<images, containers, sandboxes, scope, threads, lastOp, buildOps,
                   tagHist, spawned, removals>>
    /\ UNCHANGED <<parserVars, tarVars, ioVars, fsys, seen, lim, appVars>>

EphExec(s) ==
    /\ eph[s].pc = "exec"
    /\ \E r \in (IF RequireState(sandboxes[s].state, "RUNNING")
                 THEN ExecResults(containers, s) ELSE {"NotRunning"}) :
        EphStep(s, "exec", r)
    /\ UNCHANGED <<images, containers, sandboxes, scope, threads, lastOp, buildOps,
                   tagHist, spawned, removals>>
    /\ UNCHANGED <<parserVars, tarVars, ioVars, fsys, seen, lim, appVars>>

EphStop(s) ==
    /\ eph[s].pc = "stop"
    /\ IF ~RequireState(sandboxes[s].state, "RUNNING")
       THEN /\ EphStep(s, "stop", "ok")
            /\ UNCHANGED <<containers, sandboxes, removals>>
       ELSE \E r \in RemoveContainer(containers, s) :
            /\ containers' = r.containers
            /\ removals' = [removals EXCEPT ![s] = @ + 1]
            /\ IF r.result = "ok"
               THEN sandboxes' = [sandboxes EXCEPT ![s].state = "STOPPED"]
               ELSE UNCHANGED sandboxes
            /\ EphStep(s, "stop", r.result)
    /\ UNCHANGED <<images, scope, threads, lastOp, buildOps, tagHist, spawned>>
    /\ UNCHANGED <<parserVars, tarVars, ioVars, fsys, seen, lim, appVars>>

\* run_ephemeral has created a not-started sandbox for a profile whose image
\* is there, one call per sandbox.
EphInit ==
    /\ images = Tags
    /\ containers = {}
    /\ sandboxes = [s \in SandboxIds |-> [state |-> "NOT_STARTED", profile |-> "ds"]]
    /\ eph = [s \in SandboxIds |-> [pc |-> "start", log |-> <<>>, exc |-> ""]]
    /\ scope = [s \in SandboxIds |-> "outside"]
    /\ threads = IdleThreads
    /\ lastOp = NoOp
    /\ buildOps = [t \in Tags |-> 0]
    /\ tagHist = [t \in Tags |-> FreshHist(FALSE)]
    /\ spawned = [s \in SandboxIds |-> 0]
    /\ removals = [s \in SandboxIds |-> 0]
    /\ stream = <<>> /\ pos = 0 /\ parser = NewStreamParser(STREAM_HEADER_SIZE)
    /\ midFrame = FALSE /\ emptyFed = FALSE
    /\ files = <<>> /\ archive = <<>> /\ tarPc = "init"
    /\ readName = <<>> /\ readResult = Raised("")
    /\ written = 0 /\ running = FALSE /\ sockReset = FALSE /\ clock = 0
    /\ timeout = 0 /\ stdin = <<>> /\ delivered = <<>> /\ pc = "idle"
    /\ ready = NotReady /\ streamData = <<>> /\ sockOpen = FALSE /\ wrShut = 0
    /\ outcome = NoOutcome /\ containerUp = FALSE /\ timedOut = FALSE
    /\ sockErr = NoSockErr
    /\ fsys = NoFiles /\ seen = NothingSeen /\ lim = NoLim
    /\ dcm = NoDcm /\ tok = NoTok /\ chat = NoChat /\ upl = NoUpl /\ req = NoReq

EphNext ==
    \E s \in SandboxIds :
        EphStart(s) \/ EphWriteFiles(s) \/ EphExec(s) \/ EphStop(s) \/ SessionExpires(s)

SpecEphemeral == EphInit /\ [][EphNext]_vars

(***************************************************************************)
(* Sandboxes of one profile side by side                                   *)
(*                                                                         *)
(* Each sandbox writes a file "f" whose content names the sandbox, and     *)
(* reads it back with read_file and with an exec that echoes it.           *)
(* spawn_container passes no volumes to containers.run, so a container's   *)
(* files are its own.                                                      *)
(***************************************************************************)
\* A plausible slip: the working directory is a volume all containers mount.
PutArchiveShared(fs, name, content) == [n \in DOMAIN fs |-> content]

\* copy_to line 141: container.put_archive(path, tar_data) extracts the
\* archive into the file system of that container
PutArchive(fs, name, content) == [fs EXCEPT ![name] = content]

\* copy_from line 147: container.get_archive(path) reads from the file
\* system of that container
GetArchive(fs, name) == fs[name]

IsoWriteFiles(s) ==
    /\ RequireState(sandboxes[s].state, "RUNNING")
    /\ \E r \in CopyTo(containers, s) :
        /\ fsys' = IF r = "ok" THEN PutArchive(fsys, s, s) ELSE fsys
        /\ lastOp' = Op("write_files", s, r, <<"copy_to">>, 0)
    /\ UNCHANGED <<images, containers, sandboxes, scope, threads, buildOps, tagHist,
                   spawned, removals, seen>>
    /\ UNCHANGED <<parserVars, tarVars, ioVars, eph, lim, appVars>>

IsoReadFile(s) ==
    /\ RequireState(sandboxes[s].state, "RUNNING")
    /\ \E r \in CopyFrom(containers, s) :
        LET content == GetArchive(fsys, s)
            result == IF r = "ok" /\ content = 0 THEN "FileNotFoundInArchive" ELSE r
        IN  /\ seen' = IF result = "ok" THEN [seen EXCEPT ![s] = @ \cup {content}]
                       ELSE seen
            /\ lastOp' = Op("read_file", s, result, <<"copy_from">>, 0)
    /\ UNCHANGED <<images, containers, sandboxes, scope, threads, buildOps, tagHist,
                   spawned, removals, fsys>>
    /\ UNCHANGED <<parserVars, tarVars, ioVars, eph, lim, appVars>>

\* exec of a command that echoes the file
IsoExec(s) ==
    /\ RequireState(sandboxes[s].state, "RUNNING")
    /\ \E r \in ExecResults(containers, s) :
        /\ seen' = IF r = "ok" /\ fsys[s] # 0 THEN [seen EXCEPT ![s] = @ \cup {fsys[s]}]
                   ELSE seen
        /\ lastOp' = Op("exec", s, r, <<"exec_command">>, 0)
    /\ UNCHANGED <<images, containers, sandboxes, scope, threads, buildOps, tagHist,
                   spawned, removals, fsys>>
    /\ UNCHANGED <<parserVars, tarVars, ioVars, eph, lim, appVars>>

\* Sandboxes created from the same profile, none started yet.
IsoInit ==
    /\ images = Tags
    /\ containers = {}
    /\ sandboxes = [s \in SandboxIds |-> [state |-> "NOT_STARTED", profile |-> "ds"]]
    /\ fsys = NoFiles /\ seen = NothingSeen /\ lim = NoLim
    /\ dcm = NoDcm /\ tok = NoTok /\ chat = NoChat /\ upl = NoUpl /\ req = NoReq
    /\ eph = NoEph
    /\ scope = [s \in SandboxIds |-> "outside"]
    /\ threads = IdleThreads
    /\ lastOp = NoOp
    /\ buildOps = [t \in Tags |-> 0]
    /\ tagHist = [t \in Tags |-> FreshHist(FALSE)]
    /\ spawned = [s \in SandboxIds |-> 0]
    /\ removals = [s \in SandboxIds |-> 0]
    /\ stream = <<>> /\ pos = 0 /\ parser = NewStreamParser(STREAM_HEADER_SIZE)
    /\ midFrame = FALSE /\ emptyFed = FALSE
    /\ files = <<>> /\ archive = <<>> /\ tarPc = "init"
    /\ readName = <<>> /\ readResult = Raised("")
    /\ written = 0 /\ running = FALSE /\ sockReset = FALSE /\ clock = 0
    /\ timeout = 0 /\ stdin = <<>> /\ delivered = <<>> /\ pc = "idle"
    /\ ready = NotReady /\ streamData = <<>> /\ sockOpen = FALSE /\ wrShut = 0
    /\ outcome = NoOutcome /\ containerUp = FALSE /\ timedOut = FALSE
    /\ sockErr = NoSockErr

IsoNext ==
    \E s \in SandboxIds :
        Start(s) \/ IsoWriteFiles(s) \/ IsoReadFile(s) \/ IsoExec(s) \/ Stop(s)

SpecIsolation == IsoInit /\ [][IsoNext]_vars

\* ---------------------------------------------------------------------------
\* Resource limits of created containers
\* (docker.py merge_limits_defaults, manager.py _create_sandbox_container,
\*  docker_client.py spawn_container)
\* ---------------------------------------------------------------------------

DEFAULT_LIMITS == [cputime |-> 1, realtime |-> 5, memory |-> 64, processes |-> -1]

CPU_TO_REAL_TIME_FACTOR == 5

\* Every limits dict a caller may pass: any subset of the keys, each with a
\* positive value.
LimitDicts == UNION { [keys -> LimitValues] : keys \in SUBSET LimitNames }

\* The profiles spawn_container is given: the fields it reads for the limits.
Profiles == [mem_limit_mb : LimitValues, cpu_period : {1}, cpu_quota : LimitValues]

\* merge_limits_defaults(limits)
MergeLimitsDefaults(limits) ==
    IF DOMAIN limits = {} THEN DEFAULT_LIMITS
    ELSE LET is_realtime_specified == "realtime" \in DOMAIN limits
             filled == [n \in DOMAIN limits \cup DOMAIN DEFAULT_LIMITS |->
                           IF n \in DOMAIN limits THEN limits[n]
                           ELSE DEFAULT_LIMITS[n]]
         IN  IF is_realtime_specified THEN filled
             ELSE [filled EXCEPT !["realtime"] =
                       filled["cputime"] * CPU_TO_REAL_TIME_FACTOR]

\* create_ulimits(limits): limits["file_size"] is read whether or not the dict
\* has the key
CreateUlimits(limits) ==
    IF "file_size" \notin DOMAIN limits
    THEN [error |-> "KeyError", cpu |-> Unset, fsize |-> Unset]
    ELSE [error |-> "",
          cpu |-> IF limits["cputime"] # 0 THEN Passed(limits["cputime"]) ELSE Unset,
          fsize |-> IF limits["file_size"] # 0 THEN Passed(limits["file_size"])
                    ELSE Unset]

\* The attributes SandboxManager.__init__ assigns.
ManagerAttributes == {"docker_client_manager"}

\* The limits among the keyword arguments of containers.create in
\* _create_sandbox_container
CreateSandboxContainerKwargs(limits, ulimits) ==
    [mem_limit |-> Passed(limits["memory"]),
     memswap_limit |-> Passed(limits["memory"]),
     cpu_period |-> Unset, cpu_quota |-> Unset,
     ulimit_cpu |-> ulimits.cpu,
     pids_limit |-> Passed(limits["processes"])]

\* The limits among the keyword arguments of containers.run in spawn_container
SpawnContainerKwargs(profile) ==
    [mem_limit |-> Passed(profile.mem_limit_mb),
     memswap_limit |-> Unset,
     cpu_period |-> Passed(profile.cpu_period),
     cpu_quota |-> Passed(profile.cpu_quota),
     ulimit_cpu |-> Unset,
     pids_limit |-> Unset]

LimFrame == UNCHANGED <<parserVars, tarVars, ioVars, lifeVars, appVars>>

\* limits = merge_limits_defaults(limits=limits)
MergeLimitsCall ==
    /\ lim.step = "start"
    /\ lim' = [lim EXCEPT !.merged = MergeLimitsDefaults(lim.declared),
                          !.step = "merged"]
    /\ LimFrame

\* _create_sandbox_container(..., limits=limits, ...): self.docker_client is
\* looked up first (line 68); then create_ulimits, then containers.create,
\* whose RequestException / DockerException becomes DockerError.
CreateSandboxContainerCall ==
    /\ lim.step = "merged"
    /\ IF "docker_client" \notin ManagerAttributes
       THEN lim' = [lim EXCEPT !.error = "AttributeError", !.step = "done"]
       ELSE LET ulimits == CreateUlimits(lim.merged)
            IN  IF ulimits.error # ""
                THEN lim' = [lim EXCEPT !.error = ulimits.error, !.step = "done"]
                ELSE \/ lim' = [lim EXCEPT
                                  !.created = @ \cup
                                      {CreateSandboxContainerKwargs(lim.merged, ulimits)},
                                  !.error = "", !.step = "done"]
                     \/ lim' = [lim EXCEPT !.error = "DockerError", !.step = "done"]
    /\ LimFrame

\* spawn_container(name, profile, workdir): containers.run, whose APIError
\* becomes DockerOperationsError.
SpawnContainerCall ==
    /\ lim.step # "idle"
    /\ \/ lim' = [lim EXCEPT !.created = @ \cup {SpawnContainerKwargs(lim.profile)},
                             !.error = ""]
       \/ lim' = [lim EXCEPT !.error = "DockerOperationsError"]
    /\ LimFrame

LimInit ==
    /\ lim \in { [NoLim EXCEPT !.declared = d, !.profile = p, !.step = "start"] :
                    d \in LimitDicts, p \in Profiles }
    /\ images = Tags
    /\ containers = {}
    /\ sandboxes = NoSandboxes
    /\ fsys = NoFiles /\ seen = NothingSeen
    /\ dcm = NoDcm /\ tok = NoTok /\ chat = NoChat /\ upl = NoUpl /\ req = NoReq
    /\ eph = NoEph
    /\ scope = [s \in SandboxIds |-> "outside"]
    /\ threads = IdleThreads
    /\ lastOp = NoOp
    /\ buildOps = [t \in Tags |-> 0]
    /\ tagHist = [t \in Tags |-> FreshHist(FALSE)]
    /\ spawned = [s \in SandboxIds |-> 0]
    /\ removals = [s \in SandboxIds |-> 0]
    /\ stream = <<>> /\ pos = 0 /\ parser = NewStreamParser(STREAM_HEADER_SIZE)
    /\ midFrame = FALSE /\ emptyFed = FALSE
    /\ files = <<>> /\ archive = <<>> /\ tarPc = "init"
    /\ readName = <<>> /\ readResult = Raised("")
    /\ written = 0 /\ running = FALSE /\ sockReset = FALSE /\ clock = 0
    /\ timeout = 0 /\ stdin = <<>> /\ delivered = <<>> /\ pc = "idle"
    /\ ready = NotReady /\ streamData = <<>> /\ sockOpen = FALSE /\ wrShut = 0
    /\ outcome = NoOutcome /\ containerUp = FALSE /\ timedOut = FALSE
    /\ sockErr = NoSockErr

LimNext == MergeLimitsCall \/ CreateSandboxContainerCall \/ SpawnContainerCall

SpecLimits == LimInit /\ [][LimNext]_vars

\* A fresh parser and a valid stream about to arrive.
ParserInit ==
    /\ stream \in ValidStreams
    /\ pos = 0
    /\ parser = NewStreamParser(STREAM_HEADER_SIZE)
    /\ midFrame = FALSE
    /\ emptyFed = FALSE
    /\ files = <<>> /\ archive = <<>> /\ tarPc = "init"
    /\ readName = <<>> /\ readResult = Raised("")
    /\ written = 0 /\ running = FALSE /\ sockReset = FALSE /\ clock = 0
    /\ timeout = 0 /\ stdin = <<>> /\ delivered = <<>> /\ pc = "idle"
    /\ ready = NotReady /\ streamData = <<>> /\ sockOpen = FALSE /\ wrShut = 0
    /\ outcome = NoOutcome /\ containerUp = FALSE /\ timedOut = FALSE
    /\ sockErr = NoSockErr /\ eph = NoEph
    /\ fsys = NoFiles /\ seen = NothingSeen /\ lim = NoLim
    /\ dcm = NoDcm /\ tok = NoTok /\ chat = NoChat /\ upl = NoUpl /\ req = NoReq
    /\ images = {} /\ containers = {} /\ sandboxes = NoSandboxes
    /\ scope = [s \in SandboxIds |-> "outside"] /\ threads = IdleThreads
    /\ lastOp = NoOp /\ buildOps = [t \in Tags |-> 0]
    /\ tagHist = [t \in Tags |-> FreshHist(FALSE)]
    /\ spawned = [s \in SandboxIds |-> 0] /\ removals = [s \in SandboxIds |-> 0]

\* The entries a caller gives to write_files.
TarInit ==
    /\ files \in FileLists
    /\ archive = <<>>
    /\ tarPc = "init"
    /\ readName = <<>>
    /\ readResult = Raised("")
    /\ stream = <<>> /\ pos = 0 /\ parser = NewStreamParser(STREAM_HEADER_SIZE)
    /\ midFrame = FALSE /\ emptyFed = FALSE
    /\ written = 0 /\ running = FALSE /\ sockReset = FALSE /\ clock = 0
    /\ timeout = 0 /\ stdin = <<>> /\ delivered = <<>> /\ pc = "idle"
    /\ ready = NotReady /\ streamData = <<>> /\ sockOpen = FALSE /\ wrShut = 0
    /\ outcome = NoOutcome /\ containerUp = FALSE /\ timedOut = FALSE
    /\ sockErr = NoSockErr /\ eph = NoEph
    /\ fsys = NoFiles /\ seen = NothingSeen /\ lim = NoLim
    /\ dcm = NoDcm /\ tok = NoTok /\ chat = NoChat /\ upl = NoUpl /\ req = NoReq
    /\ images = {} /\ containers = {} /\ sandboxes = NoSandboxes
    /\ scope = [s \in SandboxIds |-> "outside"] /\ threads = IdleThreads
    /\ lastOp = NoOp /\ buildOps = [t \in Tags |-> 0]
    /\ tagHist = [t \in Tags |-> FreshHist(FALSE)]
    /\ spawned = [s \in SandboxIds |-> 0] /\ removals = [s \in SandboxIds |-> 0]

\* ---- read_file: an archive fetched from a container ----

\* The entries under a container's working directory: regular files "a",
\* "d/a" and "d/e" with any content, the directory "d", the symbolic link "l".
TreeEntries ==
    { [name |-> n, content |-> c, type |-> "REGTYPE"] :
          n \in { <<97>>, <<100, 47, 97>>, <<100, 47, 101>> }, c \in Contents }
    \cup { [name |-> <<100>>, content |-> [kind |-> "bytes", val |-> <<>>],
            type |-> "DIRTYPE"],
           [name |-> <<108>>, content |-> [kind |-> "bytes", val |-> <<>>],
            type |-> "SYMTYPE"] }

TreeLists == { fs \in SeqsUpTo(TreeEntries, MaxFiles) : DistinctNames(fs) }

\* The archive the daemon streams for them: one header per entry, a
\* directory's name ending in "/", a regular file's data after its header.
RECURSIVE DaemonMemberBlocks(_)
DaemonMemberBlocks(fs) ==
    IF fs = <<>> THEN <<>>
    ELSE LET e == Head(fs)
             data == ContentBytes(e.content)
         IN  (IF e.type = "REGTYPE"
              THEN <<Block("header", e.name, Len(data), "REGTYPE", <<>>)>>
                   \o DataBlocks(data)
              ELSE IF e.type = "DIRTYPE"
              THEN <<Block("header", e.name \o <<47>>, 0, "DIRTYPE", <<>>)>>
              ELSE <<Block("header", e.name, 0, e.type, <<>>)>>)
             \o DaemonMemberBlocks(Tail(fs))

\* copy_from: b"".join(stream) of container.get_archive(src_path)
FetchArchive ==
    /\ tarPc = "init"
    /\ archive' = DaemonMemberBlocks(files) \o <<ZeroBlock, ZeroBlock>>
    /\ tarPc' = "written"
    /\ UNCHANGED <<files, readName, readResult>>
    /\ UNCHANGED <<parserVars, ioVars, lifeVars, lim, appVars>>

ExtractInit ==
    /\ files \in TreeLists
    /\ archive = <<>>
    /\ tarPc = "init"
    /\ readName = <<>>
    /\ readResult = Raised("")
    /\ stream = <<>> /\ pos = 0 /\ parser = NewStreamParser(STREAM_HEADER_SIZE)
    /\ midFrame = FALSE /\ emptyFed = FALSE
    /\ written = 0 /\ running = FALSE /\ sockReset = FALSE /\ clock = 0
    /\ timeout = 0 /\ stdin = <<>> /\ delivered = <<>> /\ pc = "idle"
    /\ ready = NotReady /\ streamData = <<>> /\ sockOpen = FALSE /\ wrShut = 0
    /\ outcome = NoOutcome /\ containerUp = FALSE /\ timedOut = FALSE
    /\ sockErr = NoSockErr /\ eph = NoEph
    /\ fsys = NoFiles /\ seen = NothingSeen /\ lim = NoLim
    /\ dcm = NoDcm /\ tok = NoTok /\ chat = NoChat /\ upl = NoUpl /\ req = NoReq
    /\ images = {} /\ containers = {} /\ sandboxes = NoSandboxes
    /\ scope = [s \in SandboxIds |-> "outside"] /\ threads = IdleThreads
    /\ lastOp = NoOp /\ buildOps = [t \in Tags |-> 0]
    /\ tagHist = [t \in Tags |-> FreshHist(FALSE)]
    /\ spawned = [s \in SandboxIds |-> 0] /\ removals = [s \in SandboxIds |-> 0]

ExtractNext == FetchArchive \/ ReadFile

SpecExtract == ExtractInit /\ [][ExtractNext]_vars

SpecParser == ParserInit /\ [][ParserNext]_vars

SpecArchive == TarInit /\ [][TarNext]_vars

\* C1: for every valid multiplexed stream and every way of splitting it into
\* consecutive chunks (empty chunks and splits inside a header or a payload
\* included), feeding the chunks in order to a fresh parser gives the same
\* (stdout, stderr) as feeding the whole stream in one feed call.
C1_ChunkIndependent ==
    pos = Len(stream) =>
        GetOutput(parser) = GetOutput(Feed(NewStreamParser(STREAM_HEADER_SIZE), stream))

\* A stream of two frames has been fed completely in chunks that ended inside
\* a header or a payload, and some output was decoded.
C1_Witness ==
    /\ pos = Len(stream)
    /\ Len(stream) > 2 * STREAM_HEADER_SIZE
    /\ midFrame
    /\ emptyFed
    /\ parser.stdout # <<>>
    /\ parser.stderr # <<>>

\* C2: when the deadline passes before the command completes, the call
\* returns a result (it does not raise) with timed_out = true whose stdout
\* and stderr are exactly the payloads of the complete frames read from the
\* socket before the deadline.
C2_TimeoutReturnsPartialOutput ==
    (pc = "done" /\ timedOut) =>
        /\ outcome.kind = "returned"
        /\ outcome.timed_out
        /\ outcome.stdout = CompletePayloads(stream, pos, 1)
        /\ outcome.stderr = CompletePayloads(stream, pos, 2)

\* C3: whenever the call returns with timed_out = true, the container in
\* which the command ran is absent from the daemon.
C3_TimedOutContainerGone ==
    (pc = "done" /\ outcome.kind = "returned" /\ outcome.timed_out) => ~containerUp

\* The entry of files whose name is readName, if any.
WrittenAs(name) == { i \in 1..Len(files) : files[i].name = name }

\* A name that names a file: it does not end in "/" and holds no NUL.
PlainName(name) ==
    /\ \A i \in 1..Len(name) : name[i] # 0
    /\ (name = <<>> \/ name[Len(name)] # 47)

\* C10 as stated: for every set of entries with distinct names and arbitrary
\* contents, reading a written name back returns exactly the bytes written
\* for that name.
C10_RoundTripAnyNames ==
    (tarPc = "read" /\ WrittenAs(readName) # {}) =>
        \A i \in WrittenAs(readName) :
            readResult = Returned(ContentBytes(files[i].content))

\* C10 (amended): when the names of the entries are distinct and none of them
\* ends in "/" or contains a NUL character, reading a written name back
\* returns exactly the bytes written for that name (str content as its
\* UTF-8 encoding).
C10_RoundTripPlainNames ==
    (tarPc = "read" /\ WrittenAs(readName) # {}
        /\ \A i \in 1..Len(files) : PlainName(files[i].name)) =>
        \A i \in WrittenAs(readName) :
            /\ readResult.ok
            /\ readResult.data = ContentBytes(files[i].content)

\* Two entries were written and the nested name "d/a", whose content spans
\* more than one block, was read back.
C10_Witness ==
    /\ tarPc = "read"
    /\ Len(files) = 2
    /\ \A i \in 1..Len(files) : PlainName(files[i].name)
    /\ readName = <<100, 47, 97>>
    /\ WrittenAs(readName) # {}
    /\ readResult.ok
    /\ Len(readResult.data) > BLOCKSIZE

\* The thread t completes its call in this step.
Completes(t) == threads[t].pc # "idle" /\ threads'[t].pc = "idle"

\* C4: whenever a "with sandbox:" block has been left, by return or by an
\* exception, stop() has run: the sandbox is not RUNNING and the container it
\* spawned no longer exists.
C4_LeftScopeStopped ==
    \A s \in SandboxIds :
        scope[s] = "left" => sandboxes[s].state # "RUNNING" /\ s \notin containers

C6_FileOpsNeedRunning ==
    [][\A s \in SandboxIds :
        ( /\ lastOp'.op \in {"write_files", "exec", "read_file"}
          /\ lastOp'.id = s
          /\ sandboxes[s].state \in {"NOT_STARTED", "STOPPED"} ) =>
            /\ lastOp'.result = "NotRunning"
            /\ lastOp'.issued = <<>>
            /\ sandboxes' = sandboxes /\ containers' = containers
      ]_vars

\* C6 witness: an exec on a stopped sandbox has just failed with NotRunning.
C6_Witness ==
    /\ lastOp.op = "exec" /\ lastOp.result = "NotRunning"
    /\ sandboxes[lastOp.id].state = "STOPPED"

\* C7: stop() never raises; in RUNNING it moves the sandbox to STOPPED and
\* requests the container's removal; in any other state it is a no-op that
\* requests no removal and changes nothing; so each sandbox requests at most
\* one removal.
C7_StopIdempotent ==
    [][\A s \in SandboxIds :
        (lastOp'.op = "stop" /\ lastOp'.id = s) =>
            /\ ~Raises(lastOp')
            /\ sandboxes[s].state = "RUNNING" =>
                /\ sandboxes'[s].state = "STOPPED"
                /\ lastOp'.issued = <<"remove_container">>
                /\ removals'[s] = 1
            /\ sandboxes[s].state # "RUNNING" =>
                /\ lastOp'.issued = <<>>
                /\ sandboxes' = sandboxes /\ containers' = containers
                /\ removals' = removals
      ]_vars

\* C7 witness: a sandbox that was stopped once has just been stopped again.
C7_Witness ==
    /\ lastOp.op = "stop" /\ lastOp.issued = <<>> /\ lastOp.result = "ok"
    /\ sandboxes[lastOp.id].state = "STOPPED" /\ removals[lastOp.id] = 1

\* C8: in a history of sequential, unforced build_profile calls for a tag that
\* did not exist at the start, exactly one build has been performed once a
\* call has completed; and a call completing while the tag exists returns the
\* tag and has performed no build.
C8_BuildOnce ==
    /\ [](\A tag \in Tags :
            (tagHist[tag].absent /\ tagHist[tag].plain /\ tagHist[tag].called)
                => buildOps[tag] = 1)
    /\ [][\A t \in Callers :
            ( /\ Completes(t)
              /\ tagHist[Image(threads[t].profile)].plain
              /\ Image(threads[t].profile) \in images ) =>
                /\ lastOp'.result = Image(threads[t].profile)
                /\ lastOp'.built = 0
                /\ buildOps' = buildOps
         ]_vars

ReadRaised(rd, err) == pc = rd /\ pc' # pc /\ ready.r /\ sockErr'.r = err

\* This step is a write at position wr that raised err.
WriteRaised(wr, err) ==
    pc = wr /\ pc' # pc /\ ready.w /\ stdin # <<>> /\ sockErr'.w = err

\* The call has returned the payload of every frame that is complete in the
\* bytes it has read.
ReturnedAllRead ==
    /\ outcome.stdout = CompletePayloads(stream, pos, 1)
    /\ outcome.stderr = CompletePayloads(stream, pos, 2)

\* C11: an interrupted or would-block read or write in the loop of
\* exec_command does not end the loop and does not fail the call: the loop
\* goes on to its next step with the parser and the unsent stdin unchanged.
C11_RecoverableErrorsRetried ==
    [][ /\ ReadRaised("e_read", "recoverable") =>
            /\ pc' = "e_write"
            /\ parser' = parser /\ stdin' = stdin /\ outcome' = outcome
        /\ WriteRaised("e_write", "recoverable") =>
            /\ pc' = "e_top"
            /\ parser' = parser /\ stdin' = stdin /\ outcome' = outcome
      ]_vars

C13_ResetKeepsParsedOutput ==
    /\ [][ ReadRaised("e_read", "reset") =>
                /\ pc' = "e_finally"
                /\ parser' = parser /\ outcome' = outcome
         ]_vars
    /\ []((pc = "done" /\ sockErr.r = "reset") =>
            IF outcome.kind = "returned"
            THEN ReturnedAllRead /\ ~outcome.timed_out
            ELSE outcome.error = "APIError")

\* C13 witness: a call whose read met a reset after a whole frame had been
\* parsed has returned that frame's payload.
C13_Witness ==
    /\ pc = "done" /\ sockErr.r = "reset" /\ outcome.kind = "returned"
    /\ outcome.stdout # <<>> /\ pos < Len(stream)

\* C14: remove_container returns normally whatever the daemon answers to the
\* removal (removed, no such container, API error, connection error), so a
\* stop() that requests a removal returns normally too.
C14_RemoveNeverRaises ==
    /\ [](\A cs \in SUBSET SandboxIds, name \in SandboxIds :
            \A r \in RemoveContainer(cs, name) : r.result = "ok")
    /\ [][\A s \in SandboxIds :
            ( /\ lastOp'.op = "stop" /\ lastOp'.id = s
              /\ sandboxes[s].state = "RUNNING" ) =>
                /\ lastOp'.result = "ok"
                /\ containers' \in {containers, containers \ {s}}
         ]_vars

\* C14 witness: a stop() whose removal failed, the container being still
\* there, has returned normally.
C14_Witness ==
    /\ lastOp.op = "stop" /\ lastOp.issued = <<"remove_container">>
    /\ lastOp.result = "ok" /\ lastOp.id \in containers

\* The steps a finished run_ephemeral call may have performed, in order.
EphOrders ==
    { <<"start">>, <<"start", "write_files", "stop">>,
      <<"start", "write_files", "exec", "stop">> }

C17_RaisesOnlyOnSetupFailure ==
    /\ [][(pc = "e_setup" /\ pc' = "done") =>
            outcome' = RaisedError("DockerOperationsError")]_vars
    /\ [][(pc # "e_setup" /\ pc' = "done") => outcome'.kind = "returned"]_vars

\* C18: a result returned for a command whose process was killed for
\* exceeding the memory limit has oom_killed = true and an exit code that is
\* not zero; a result returned for any other command has oom_killed = false.
C18_OomReported ==
    (pc = "done" /\ outcome.kind = "returned") =>
        IF outcome.fate.oom
        THEN outcome.oom_killed = "true" /\ outcome.exit_code \notin {"0", "none"}
        ELSE outcome.oom_killed = "false"

\* C19: every container that is created carries a memory limit with a swap
\* limit equal to it, a CPU limit and a process limit, the memory and CPU
\* limits being the declared ones; and merging the declared limits with the
\* defaults gives every limit a value and keeps every declared value.
EnvelopeComplete(c) ==
    /\ c.mem_limit.set
    /\ c.memswap_limit = c.mem_limit
    /\ c.cpu_quota.set \/ c.ulimit_cpu.set
    /\ c.pids_limit.set

C19_CompleteEnvelope ==
    /\ \A c \in lim.created : EnvelopeComplete(c)
    /\ lim.step \in {"merged", "done"} =>
          /\ DOMAIN DEFAULT_LIMITS \subseteq DOMAIN lim.merged
          /\ \A n \in DOMAIN lim.declared : lim.merged[n] = lim.declared[n]

\* The entries of the fetched tree that have the name read.
Named(name) == { i \in 1..Len(files) : files[i].name = name }

\* What reading the name must give: the content of the regular file of that
\* name, and the file-not-found error when there is none.
ExactEntry(name) ==
    IF \E i \in Named(name) : files[i].type = "REGTYPE"
    THEN \A i \in Named(name) : readResult = Returned(ContentBytes(files[i].content))
    ELSE readResult = Raised("FileNotFoundError")

\* C20 as stated: extracting a name returns the content of the entry of
\* exactly that name, and fails with the file-not-found error when no entry
\* has that name or the entry is not a regular file.
C20_ExactEntryAnyName ==
    tarPc = "read" => ExactEntry(readName)

\* C20 (amended): for a name that does not end in "/", extracting it returns
\* the content of the entry of exactly that name, and fails with the
\* file-not-found error when no entry has that name or the entry is not a
\* regular file.
C20_ExactEntry ==
    (tarPc = "read" /\ (readName = <<>> \/ readName[Len(readName)] # 47)) =>
        ExactEntry(readName)

\* The directory "d" was fetched next to a regular file and "d" was read: the
\* read failed with the file-not-found error.
C20_Witness ==
    /\ tarPc = "read"
    /\ readName = <<100>>
    /\ \E i \in Named(readName) : files[i].type = "DIRTYPE"
    /\ \E i \in 1..Len(files) : files[i].type = "REGTYPE"
    /\ readResult = Raised("FileNotFoundError")

\* The call has returned and its loop ended on natural completion: the
\* command exited, the deadline did not pass, the connection was not reset
\* and no read raised.
NaturalCompletion ==
    /\ pc = "done" /\ outcome.kind = "returned" /\ ~outcome.timed_out
    /\ ~running /\ ~sockReset /\ sockErr.r = ""

\* C21: on natural completion the returned stdout and stderr hold the payload
\* of every complete frame the command wrote before it exited.
C21_NoOutputLost ==
    NaturalCompletion =>
        /\ outcome.stdout = CompletePayloads(stream, written, 1)
        /\ outcome.stderr = CompletePayloads(stream, written, 2)

\* The positions of the I/O loop, and a step that leaves it.
LoopPcs == {"e_top", "e_inspect", "e_read", "e_write"}
LeavesLoop == pc \in LoopPcs /\ pc' \notin LoopPcs

\* The step leaves the loop because the deadline has passed.
LeavesOnDeadline == pc = "e_top" /\ clock > timeout /\ timedOut'

\* The step leaves the loop for one of the reasons that end it before the
\* deadline: a read of zero bytes, a read that met a reset connection, or
\* nothing ready and the exec instance reported as exited.
LeavesOnCompletion ==
    /\ ~timedOut' /\ pc' = "e_finally"
    /\ \/ pc = "e_read" /\ ready.r /\ sockErr'.r = "" /\ parser' = parser
       \/ pc = "e_read" /\ ready.r /\ sockErr'.r = "reset"
       \/ pc = "e_inspect" /\ ~ready.r /\ ~ready.w /\ ~running

\* C22: the loop is left either because the deadline passed or, before the
\* deadline, because a read returned zero bytes, a read met a reset
\* connection, or nothing was ready and the exec instance had exited; and a
\* returned result has timed_out = true exactly when the loop was left
\* because the deadline passed.
C22_LoopExits ==
    /\ [][LeavesLoop => (LeavesOnDeadline \/ LeavesOnCompletion)]_vars
    /\ [](pc = "done" /\ outcome.kind = "returned" => outcome.timed_out = timedOut)

\* C23: the call always ends, returning or raising, whatever the daemon, the
\* command and the socket do: no data ever, data at every poll, a socket that
\* never takes stdin, a process that never exits.
C23_Terminates == <>(pc = "done")

\* C23 witness: the command wrote nothing and never exited, the socket never
\* took the stdin, and the call returned at the deadline.
C23_Witness ==
    /\ pc = "done" /\ outcome.kind = "returned" /\ outcome.timed_out
    /\ running /\ written = 0 /\ stdin # <<>> /\ delivered = <<>>

\* s is a prefix of t.
IsPrefixOf(s, t) == Len(s) <= Len(t) /\ SubSeq(t, 1, Len(s)) = s

\* C24: at every point of the loop the bytes sent so far are a prefix of the
\* given stdin and the unsent view is the rest of it (or nothing, once a
\* failed send has dropped it); and select is asked for writability only
\* while unsent stdin remains.
C24_StdinInOrderOnce ==
    /\ [](\E g \in LongStdins :
            \/ delivered \o stdin = g
            \/ stdin = <<>> /\ sockErr.w # "" /\ IsPrefixOf(delivered, g))
    /\ [][(pc = "e_top" /\ pc' = "e_inspect" /\ stdin = <<>>) => ~ready'.w]_vars

\* C24 witness: the first send of a three-byte stdin took one byte, and the
\* socket was polled for writability again with the other two left to send.
C24_Witness ==
    /\ pc = "e_write" /\ ready.w
    /\ delivered = SubSeq(StdinOfLen(3), 1, 1)
    /\ stdin = SubSeq(StdinOfLen(3), 2, 3)

\* The buffer holds no complete frame: fewer bytes than a header, or a header
\* and fewer payload bytes than it declares.
BufferIncomplete(p) ==
    \/ Len(p.buffer) < p.header
    \/ Len(p.buffer) < p.header + UnpackLength(p.buffer)

\* C25: after any sequence of feed calls the parser's buffer holds only an
\* incomplete trailing frame, the bytes fed last, and get_output() holds no
\* byte beyond the payloads of the frames that have been received completely.
C25_OnlyCompleteFrames ==
    /\ BufferIncomplete(parser)
    /\ IsPrefixOf(parser.buffer, SubSeq(stream, pos - Len(parser.buffer) + 1, Len(stream)))
    /\ IsPrefixOf(GetOutput(parser)[1], CompletePayloads(stream, pos, 1))
    /\ IsPrefixOf(GetOutput(parser)[2], CompletePayloads(stream, pos, 2))

\* C25 witness: after a complete stdout frame, a feed call ended inside the
\* payload of the next frame.
C25_Witness ==
    /\ parser.stdout # <<>>
    /\ Len(parser.buffer) > STREAM_HEADER_SIZE
    /\ pos < Len(stream)

\* The payloads of the frames of each type in the whole stream, in order.
StreamPayloads ==
    <<CompletePayloads(stream, Len(stream), 1), CompletePayloads(stream, Len(stream), 2)>>

\* C26: once a stream has been fed completely, nothing is left in the buffer,
\* stdout is the payloads of its type-1 frames and stderr the payloads of its
\* type-2 frames, each in arrival order; a frame of any other type is skipped
\* with its payload and adds nothing.  demultiplex_docker_stream gives the
\* same for the whole stream.
C26_FramesRouted ==
    /\ pos = Len(stream) => (parser.buffer = <<>> /\ GetOutput(parser) = StreamPayloads)
    /\ DemultiplexDockerStream(stream) = StreamPayloads

\* C26 witness: a stream that opens with a frame of another type carrying a
\* payload was fed completely, and a later frame reached stdout.
C26_Witness ==
    /\ pos = Len(stream) /\ Len(stream) > STREAM_HEADER_SIZE
    /\ stream[1] \notin {1, 2} /\ UnpackLength(stream) > 0
    /\ parser.stdout # <<>>

\* C27: get_output() is append-only over the feed calls: what it returns
\* before a feed call is a prefix, stream by stream, of what it returns after.
C27_OutputAppendOnly ==
    [][ /\ IsPrefixOf(GetOutput(parser)[1], GetOutput(parser')[1])
        /\ IsPrefixOf(GetOutput(parser)[2], GetOutput(parser')[2]) ]_vars

\* C27 witness: two stdout frames arrived in separate feed calls, the second
\* extending the output of the first.
C27_Witness ==
    /\ pos = Len(stream) /\ midFrame
    /\ Len(stream) = 2 * STREAM_HEADER_SIZE + 2
    /\ Len(parser.stdout) = 2

\* C28: nothing serializes the calls for a tag: a call that has found the
\* image missing performs a build operation when it goes on, whatever the
\* other calls have done since, so that two concurrent unforced calls started
\* while the tag is absent can both build.
C28_BuildsNotSerialized ==
    [][\A t \in Builders :
          (threads[t].pc = "build" /\ Completes(t)) =>
              /\ lastOp'.built = 1
              /\ buildOps'[Image(threads[t].profile)]
                    = buildOps[Image(threads[t].profile)] + 1
      ]_vars

\* C28 witness: the tag was absent, no call was forced, no build and no query
\* of an existing image failed, and two build operations were performed.
C28_Witness ==
    \E tag \in Tags :
        /\ tagHist[tag].absent /\ tagHist[tag].unforced /\ tagHist[tag].faultFree
        /\ buildOps[tag] = 2
        /\ \A t \in Builders : threads[t].pc = "idle"
        /\ tag \in images

\* C29: a call that completes either returns the tag, and then the image is
\* in the daemon, or fails; and a call whose build operation failed fails with
\* ImageBuildError.
C29_BuildFailureReported ==
    [][\A t \in Builders :
          Completes(t) =>
              LET tag == Image(threads[t].profile)
              IN  /\ lastOp'.result = tag => tag \in images'
                  /\ lastOp'.result # tag => lastOp'.result = "ImageBuildError"
      ]_vars

\* C30: a forced call performs a build operation whether or not the image
\* exists; an unforced call for a tag that is in the daemon from the start
\* returns the tag without building.
C30_ForceRebuild ==
    [][\A t \in Builders :
          Completes(t) =>
              LET tag == Image(threads[t].profile)
              IN  IF threads[t].force
                  THEN lastOp'.built = 1 /\ buildOps'[tag] = buildOps[tag] + 1
                  ELSE ~tagHist[tag].absent =>
                          /\ lastOp'.result = tag
                          /\ lastOp'.built = 0 /\ buildOps' = buildOps
      ]_vars

\* The step ends the I/O loop of exec_command: by a break or by an exception.
EndsLoop == pc \in LoopPcs \cup {"e_finally"} /\ pc' \in {"e_final", "done"}

\* C31: the socket of exec_command's I/O loop is closed exactly once on every
\* way out of the loop: the step that ends the loop, by a break or by an
\* exception, finds the socket open and closes it, no other step changes the
\* socket, and the call never returns or raises with the socket open.
C31_SocketClosedOnce ==
    /\ [](pc \in {"e_final", "done"} => ~sockOpen)
    /\ [][ IF EndsLoop THEN sockOpen /\ ~sockOpen' ELSE sockOpen' = sockOpen ]_vars

\* C31 witness: the liveness query raised inside the loop and the call ended
\* with the socket closed.
C31_Witness ==
    /\ pc = "done" /\ outcome.kind = "raised" /\ outcome.error = "APIError"
    /\ ready # NotReady /\ ~sockOpen /\ ~timedOut /\ running

\* The bytes fed to the parser so far: a byte sequence that may end in a
\* truncated frame.
FedBytes == SubSeq(stream, 1, pos)

\* C32: the incremental parser and the batch decoder agree: after the bytes
\* S have been fed in any chunking, get_output() equals
\* demultiplex_docker_stream(S), also when S ends in a truncated frame.
C32_DecodersAgree ==
    GetOutput(parser) = DemultiplexDockerStream(FedBytes)

\* The two decoders agree whenever the bytes fed do not end inside a payload.
DecodersAgreeOnWholePayloads ==
    Len(parser.buffer) <= STREAM_HEADER_SIZE => C32_DecodersAgree

DcmFrame == UNCHANGED <<parserVars, tarVars, ioVars, lifeVars, lim,
                        tok, chat, upl, req>>

\* A plausible slip: no second look at the cache once the lock is held.
KeyMissingUnchecked(instances, client_key) == TRUE

\* line 55: client_key not in cls._instances, with the lock held
KeyMissingLocked(instances, client_key) == instances[client_key] = 0

\* lines 47-51: a thread enters __new__ and computes client_key
NewEnter(t) ==
    /\ dcm.thr[t].pc = "idle" /\ dcm.thr[t].calls < MaxNewCalls
    /\ \E k \in ClientKeys :
         dcm' = [dcm EXCEPT !.thr[t] =
                    [IdleCtor EXCEPT !.pc = "check", !.key = k,
                                     !.calls = dcm.thr[t].calls + 1]]
    /\ DcmFrame

\* line 53: if client_key not in cls._instances  (no lock held)
NewCheck(t) ==
    /\ dcm.thr[t].pc = "check"
    /\ dcm' = [dcm EXCEPT !.thr[t].pc =
                  IF dcm.instances[dcm.thr[t].key] = 0 THEN "acquire" ELSE "lookup"]
    /\ DcmFrame

\* line 54: with cls._lock
NewAcquire(t) ==
    /\ dcm.thr[t].pc = "acquire" /\ dcm.lock = 0
    /\ dcm' = [dcm EXCEPT !.lock = t, !.thr[t].pc = "recheck"]
    /\ DcmFrame

\* line 55: the second check; the lock is released when the body is skipped
NewRecheck(t) ==
    /\ dcm.thr[t].pc = "recheck"
    /\ IF KeyMissingLocked(dcm.instances, dcm.thr[t].key)
       THEN dcm' = [dcm EXCEPT !.thr[t].pc = "init"]
       ELSE dcm' = [dcm EXCEPT !.lock = 0, !.thr[t].pc = "lookup"]
    /\ DcmFrame

\* lines 57-60: instance = super().__new__(cls); instance._initialize_client(...)
NewInitialize(t) ==
    /\ dcm.thr[t].pc = "init"
    /\ dcm' = [dcm EXCEPT !.made = @ + 1,
                          !.clients = @ \cup {dcm.made + 1},
                          !.inits[dcm.thr[t].key] = @ + 1,
                          !.thr[t].instance = dcm.made + 1,
                          !.thr[t].pc = "store"]
    /\ DcmFrame

\* line 61: cls._instances[client_key] = instance; the with block ends
NewStore(t) ==
    /\ dcm.thr[t].pc = "store"
    /\ dcm' = [dcm EXCEPT !.instances[dcm.thr[t].key] = dcm.thr[t].instance,
                          !.lock = 0,
                          !.thr[t].pc = "lookup"]
    /\ DcmFrame

\* line 63: return cls._instances[client_key]  (no lock held); a missing key
\* raises KeyError
NewReturn(t) ==
    /\ dcm.thr[t].pc = "lookup"
    /\ LET found == dcm.instances[dcm.thr[t].key]
       IN  dcm' = [dcm EXCEPT !.thr[t].pc = "idle",
                              !.thr[t].ret = found,
                              !.thr[t].retEpoch = dcm.clears,
                              !.thr[t].err = IF found = 0 THEN "KeyError" ELSE ""]
    /\ DcmFrame

\* lines 87-90: clear_instances: with cls._lock: cls._instances.clear()
ClearInstances ==
    /\ dcm.lock = 0 /\ dcm.clears < MaxClears
    /\ dcm' = [dcm EXCEPT !.instances = [k \in ClientKeys |-> 0],
                          !.inits = [k \in ClientKeys |-> 0],
                          !.clears = @ + 1]
    /\ DcmFrame

\* The class as defined, no thread in __new__ yet.
DcmInit ==
    /\ dcm = NoDcm
    /\ tok = NoTok /\ chat = NoChat /\ upl = NoUpl /\ req = NoReq
    /\ stream = <<>> /\ pos = 0 /\ parser = NewStreamParser(STREAM_HEADER_SIZE)
    /\ midFrame = FALSE /\ emptyFed = FALSE
    /\ files = <<>> /\ archive = <<>> /\ tarPc = "init"
    /\ readName = <<>> /\ readResult = Raised("")
    /\ written = 0 /\ running = FALSE /\ sockReset = FALSE /\ clock = 0
    /\ timeout = 0 /\ stdin = <<>> /\ delivered = <<>> /\ pc = "idle"
    /\ ready = NotReady /\ streamData = <<>> /\ sockOpen = FALSE /\ wrShut = 0
    /\ outcome = NoOutcome /\ containerUp = FALSE /\ timedOut = FALSE
    /\ sockErr = NoSockErr /\ eph = NoEph
    /\ fsys = NoFiles /\ seen = NothingSeen /\ lim = NoLim
    /\ images = {} /\ containers = {} /\ sandboxes = NoSandboxes
    /\ scope = [s \in SandboxIds |-> "outside"] /\ threads = IdleThreads
    /\ lastOp = NoOp /\ buildOps = [t \in Tags |-> 0]
    /\ tagHist = [t \in Tags |-> FreshHist(FALSE)]
    /\ spawned = [s \in SandboxIds |-> 0] /\ removals = [s \in SandboxIds |-> 0]

DcmNext ==
    \/ \E t \in Ctors :
         \/ NewEnter(t) \/ NewCheck(t) \/ NewAcquire(t) \/ NewRecheck(t)
         \/ NewInitialize(t) \/ NewStore(t) \/ NewReturn(t)
    \/ ClearInstances

SpecSingleton == DcmInit /\ [][DcmNext]_vars

\* C34: DockerClientManager is a singleton per key: between two
\* clear_instances calls the client of a key is initialized at most once,
\* whatever the interleaving of the constructing threads, and the
\* constructions for a key that return between the same two clear_instances
\* calls return the same instance.
C34_SingletonPerKey ==
    /\ \A k \in ClientKeys : dcm.inits[k] <= 1
    /\ \A t, u \in Ctors :
         ( /\ dcm.thr[t].ret # 0 /\ dcm.thr[u].ret # 0
           /\ dcm.thr[t].pc = "idle" /\ dcm.thr[u].pc = "idle"
           /\ dcm.thr[t].key = dcm.thr[u].key
           /\ dcm.thr[t].retEpoch = dcm.thr[u].retEpoch )
         => dcm.thr[t].ret = dcm.thr[u].ret

\* C34 witness: two threads found the key missing at the same time, one of
\* them initialized the client, and both returned that one instance.
C34_Witness ==
    /\ dcm.clears = 0 /\ dcm.made = 1
    /\ \A t \in Ctors :
         /\ dcm.thr[t].pc = "idle" /\ dcm.thr[t].calls = 1
         /\ dcm.thr[t].key = "500" /\ dcm.thr[t].ret = 1

\* C35: a construction always yields an initialized instance, also when
\* clear_instances runs concurrently: no call of __new__ ends with an error,
\* and what it returns is an instance whose client is set.
C35_NewAlwaysReturns ==
    \A t \in Ctors :
        /\ dcm.thr[t].err = ""
        /\ (dcm.thr[t].pc = "idle" /\ dcm.thr[t].calls > 0) =>
               dcm.thr[t].ret \in dcm.clients

(***************************************************************************)
(* TokenManager.generate_api_key and verify_api_key                        *)
(* (src/app/token/token_manager.py:184-243)                                *)
(*                                                                         *)
(* A string is a sequence of pieces: a character [ch |-> c], the decimal   *)
(* digits of an integer [digits |-> n], or a base64 text [b64 |-> the      *)
(* bytes it encodes].  A digest is [key, data], so that two digests are    *)
(* equal exactly when key and data are.                                    *)
(***************************************************************************)
Ch(c) == [ch |-> c]
Digits(n) == [digits |-> n]
TokFrame == UNCHANGED <<parserVars, tarVars, ioVars, lifeVars, lim,
                        dcm, chat, upl, req>>

\* base64.urlsafe_b64encode(b).decode("utf-8") and base64.urlsafe_b64decode(s)
B64Encode(bytes) == [b64 |-> bytes]
B64Decode(text) == text.b64

\* hmac.new(key, data, hashlib.sha256).digest()
HmacDigest(key, data) == [key |-> key, data |-> data]

\* line 197: f"{active_key_id}:{random_bytes_b64}"
SignedData(active_key_id, random_bytes_b64) ==
    <<Digits(active_key_id), Ch(":"), random_bytes_b64>>

\* line 227: f"{kid}: {random_bytes_b64}"
VerifiedData(kid, random_bytes_b64) ==
    <<Digits(kid), Ch(":"), Ch(" "), random_bytes_b64>>

\* str.split(".")
RECURSIVE SplitDots(_, _)
SplitDots(s, part) ==
    IF s = <<>> THEN <<part>>
    ELSE IF Head(s) = Ch(".") THEN <<part>> \o SplitDots(Tail(s), <<>>)
    ELSE SplitDots(Tail(s), Append(part, Head(s)))

\* lines 197-203: the api key string made from a signing key and random bytes
ApiKeyString(kid, key, random_bytes) ==
    LET random_bytes_b64 == B64Encode(random_bytes)
        signature_bytes == HmacDigest(key, SignedData(kid, random_bytes_b64))
    IN  <<random_bytes_b64, Ch("."), B64Encode(signature_bytes)>>

\* lines 209-243: verify_api_key against the key table {active_key_id: key}
VerifyApiKey(t, api_key, kid) ==
    LET parts == SplitDots(api_key, <<>>)
    IN  IF Len(parts) # 2 THEN "False"
        ELSE IF kid # t.active_key_id THEN "False"
        ELSE IF t.expired THEN "SigningKeyExpired"
        ELSE LET random_bytes_b64 == parts[1][1]
                 expected == HmacDigest(t.key, VerifiedData(kid, random_bytes_b64))
             IN  IF expected = B64Decode(parts[2][1]) THEN "True" ELSE "False"

\* lines 184-207: generate_api_key with the active signing key
GenerateApiKey ==
    /\ tok.step = "start"
    /\ IF tok.expired
       THEN tok' = [tok EXCEPT !.step = "done", !.result = "SigningKeyExpired"]
       ELSE \E r \in RandomBytes :
              tok' = [tok EXCEPT
                        !.step = "generated", !.random = r,
                        !.api_key = ApiKeyString(tok.active_key_id, tok.key, r)]
    /\ TokFrame

\* The api key of the caller is presented with the id of its signing key, as
\* get_api_payload does (dependency.py:159-182); or a string whose signature
\* part was made under another signing key, or for other random bytes.
PresentApiKey ==
    /\ tok.step = "generated"
    /\ \/ tok' = [tok EXCEPT !.step = "presented", !.presented = tok.api_key,
                             !.kid = tok.active_key_id]
       \/ \E k \in KeyBytes \ {tok.key} :
            tok' = [tok EXCEPT
                      !.step = "presented", !.kid = tok.active_key_id,
                      !.forged = "other_key",
                      !.presented = ApiKeyString(tok.active_key_id, k, tok.random)]
       \/ \E r \in RandomBytes \ {tok.random} :
            tok' = [tok EXCEPT
                      !.step = "presented", !.kid = tok.active_key_id,
                      !.forged = "other_random",
                      !.presented =
                          <<B64Encode(tok.random), Ch("."),
                            ApiKeyString(tok.active_key_id, tok.key, r)[3]>>]
    /\ TokFrame

\* lines 209-243
VerifyApiKeyCall ==
    /\ tok.step = "presented"
    /\ tok' = [tok EXCEPT !.step = "done",
                          !.result = VerifyApiKey(tok, tok.presented, tok.kid)]
    /\ TokFrame

\* The signing key passes its expiry time.
KeyExpires ==
    /\ tok.step \in {"start", "generated", "presented"} /\ ~tok.expired
    /\ tok' = [tok EXCEPT !.expired = TRUE]
    /\ TokFrame

\* A TokenManager built by create() from the active signing key of the
\* database (lines 49-82).
TokInit ==
    /\ tok \in { [NoTok EXCEPT !.step = "start", !.active_key_id = id,
                               !.key = k, !.expired = e] :
                   id \in KeyIds, k \in KeyBytes, e \in BOOLEAN }
    /\ dcm = NoDcm /\ chat = NoChat /\ upl = NoUpl /\ req = NoReq
    /\ stream = <<>> /\ pos = 0 /\ parser = NewStreamParser(STREAM_HEADER_SIZE)
    /\ midFrame = FALSE /\ emptyFed = FALSE
    /\ files = <<>> /\ archive = <<>> /\ tarPc = "init"
    /\ readName = <<>> /\ readResult = Raised("")
    /\ written = 0 /\ running = FALSE /\ sockReset = FALSE /\ clock = 0
    /\ timeout = 0 /\ stdin = <<>> /\ delivered = <<>> /\ pc = "idle"
    /\ ready = NotReady /\ streamData = <<>> /\ sockOpen = FALSE /\ wrShut = 0
    /\ outcome = NoOutcome /\ containerUp = FALSE /\ timedOut = FALSE
    /\ sockErr = NoSockErr /\ eph = NoEph
    /\ fsys = NoFiles /\ seen = NothingSeen /\ lim = NoLim
    /\ images = {} /\ containers = {} /\ sandboxes = NoSandboxes
    /\ scope = [s \in SandboxIds |-> "outside"] /\ threads = IdleThreads
    /\ lastOp = NoOp /\ buildOps = [t \in Tags |-> 0]
    /\ tagHist = [t \in Tags |-> FreshHist(FALSE)]
    /\ spawned = [s \in SandboxIds |-> 0] /\ removals = [s \in SandboxIds |-> 0]

TokNext == GenerateApiKey \/ PresentApiKey \/ VerifyApiKeyCall \/ KeyExpires

SpecApiKey == TokInit /\ [][TokNext]_vars

\* C36: api keys round-trip: the string generate_api_key returned under an
\* active, unexpired signing key is accepted by verify_api_key with that
\* key's id, and a string whose signature part was made under another signing
\* key or for other random bytes is rejected.
C36_ApiKeyRoundTrip ==
    (tok.step = "done" /\ tok.presented # <<>> /\ ~tok.expired) =>
        tok.result = IF tok.forged = "" THEN "True" ELSE "False"

\* The half of C36 that holds: forged strings are rejected.
ForgedApiKeyRejected ==
    (tok.step = "done" /\ tok.forged # "" /\ ~tok.expired) => tok.result = "False"

(***************************************************************************)
(* ChatService.generate_response  (src/app/service/chat_service.py:121-248)*)
(*                                                                         *)
(* The events of agent_graph.astream_events are the input; the generator   *)
(* yields metadata, token_event, tool_start, tool_end, done and error      *)
(* events to its consumer.                                                 *)
(***************************************************************************)
ChatFrame == UNCHANGED <<parserVars, tarVars, ioVars, lifeVars, lim,
                         dcm, tok, upl, req>>

\* The events of the agent stream the code tells apart: a model chunk with
\* text, one whose text is empty, one without content, a tool start, a tool
\* end, and any other event (on_chat_model_start, on_chain_start, ...).
AgentEvents == {"stream_text", "stream_empty_text", "stream_no_content",
                "on_tool_start", "on_tool_end", "other"}

\* lines 178-241: what one iteration of the async for loop yields.  The
\* yield of the done event (lines 233-241) is indented into the loop body,
\* after the if/elif chain, so every iteration that is not cut short by the
\* continue of line 192 ends with it.
YieldedFor(event) ==
    LET done == <<"done">>
    IN  CASE event = "stream_text" -> <<"token_event">> \o done
          [] event = "stream_empty_text" -> <<>>        \* line 192: continue
          [] event = "on_tool_start" -> <<"tool_start">> \o done
          [] event = "on_tool_end" -> <<"tool_end">> \o done
          [] OTHER -> done

\* lines 127-171: the upload association when there is one to make, then the
\* metadata event; a failed association yields an error event and ends
GenerateResponseStart ==
    /\ chat.step = "start"
    /\ IF chat.upload = "bad"
       THEN chat' = [chat EXCEPT !.step = "done", !.emitted = <<"error">>]
       ELSE chat' = [chat EXCEPT !.step = "stream", !.emitted = <<"metadata">>]
    /\ ChatFrame

\* lines 173-241: one event of the agent stream
GenerateResponseEvent ==
    /\ chat.step = "stream" /\ chat.events # <<>>
    /\ chat' = [chat EXCEPT !.events = Tail(@),
                            !.emitted = @ \o YieldedFor(Head(chat.events))]
    /\ ChatFrame

\* The agent stream ends: exhausted (the loop is left, and nothing follows it
\* in the try block), or by an exception (lines 243-248)
GenerateResponseEnd ==
    /\ chat.step = "stream" /\ chat.events = <<>>
    /\ chat' = [chat EXCEPT
                  !.step = "done",
                  !.emitted = IF chat.fails THEN @ \o <<"error">> ELSE @]
    /\ ChatFrame

\* One generate_response call: whether an upload is to be associated and
\* how that goes, the events the agent stream will deliver, and whether the
\* stream then fails.
ChatInit ==
    /\ chat \in { [NoChat EXCEPT !.step = "start", !.upload = u, !.events = es,
                                 !.fails = f] :
                    u \in {"none", "ok", "bad"},
                    es \in SeqsUpTo(AgentEvents, MaxAgentEvents),
                    f \in BOOLEAN }
    /\ dcm = NoDcm /\ tok = NoTok /\ upl = NoUpl /\ req = NoReq
    /\ stream = <<>> /\ pos = 0 /\ parser = NewStreamParser(STREAM_HEADER_SIZE)
    /\ midFrame = FALSE /\ emptyFed = FALSE
    /\ files = <<>> /\ archive = <<>> /\ tarPc = "init"
    /\ readName = <<>> /\ readResult = Raised("")
    /\ written = 0 /\ running = FALSE /\ sockReset = FALSE /\ clock = 0
    /\ timeout = 0 /\ stdin = <<>> /\ delivered = <<>> /\ pc = "idle"
    /\ ready = NotReady /\ streamData = <<>> /\ sockOpen = FALSE /\ wrShut = 0
    /\ outcome = NoOutcome /\ containerUp = FALSE /\ timedOut = FALSE
    /\ sockErr = NoSockErr /\ eph = NoEph
    /\ fsys = NoFiles /\ seen = NothingSeen /\ lim = NoLim
    /\ images = {} /\ containers = {} /\ sandboxes = NoSandboxes
    /\ scope = [s \in SandboxIds |-> "outside"] /\ threads = IdleThreads
    /\ lastOp = NoOp /\ buildOps = [t \in Tags |-> 0]
    /\ tagHist = [t \in Tags |-> FreshHist(FALSE)]
    /\ spawned = [s \in SandboxIds |-> 0] /\ removals = [s \in SandboxIds |-> 0]

ChatNext == GenerateResponseStart \/ GenerateResponseEvent \/ GenerateResponseEnd

SpecChat == ChatInit /\ [][ChatNext]_vars

\* How many events of the given kind were emitted.
Emitted(kind) == Cardinality({ i \in 1..Len(chat.emitted) : chat.emitted[i] = kind })

TokenOrTool == {"token_event", "tool_start", "tool_end"}

\* The metadata event comes before every token and tool event.
MetadataFirst ==
    \A i \in 1..Len(chat.emitted) :
        chat.emitted[i] \in TokenOrTool =>
            \E j \in 1..(i - 1) : chat.emitted[j] = "metadata"

\* A failed run ends with its only error event, and no other run has one.
OneErrorAtEnd ==
    chat.step = "done" =>
        IF chat.fails \/ chat.upload = "bad"
        THEN Emitted("error") = 1 /\ chat.emitted[Len(chat.emitted)] = "error"
        ELSE Emitted("error") = 0

\* C37: every run of generate_response ends with exactly one terminal event:
\* a single done event after all token and tool events when the agent stream
\* completes, or a single error event and no done event when it fails; the
\* metadata event precedes every token and tool event, and no token or tool
\* event follows a done event.
C37_OneTerminalEvent ==
    /\ MetadataFirst
    /\ OneErrorAtEnd
    /\ \A i, j \in 1..Len(chat.emitted) :
          (chat.emitted[i] = "done" /\ i < j) => chat.emitted[j] \notin TokenOrTool
    /\ chat.step = "done" =>
          IF chat.fails \/ chat.upload = "bad"
          THEN Emitted("done") = 0
          ELSE Emitted("done") = 1 /\ chat.emitted[Len(chat.emitted)] = "done"

(***************************************************************************)
(* associate_with_thread and cleanup_orphaned_uploads                      *)
(* (src/app/database/uploads.py:41-137)                                    *)
(*                                                                         *)
(* upl.rows is the committed content of the uploads table, one row per     *)
(* upload token: is_active, thread_id (0 is NULL), old (uploaded_at is     *)
(* before the cutoff of the cleanup), and present (the file of file_path   *)
(* exists on disk).  Each call runs in its own session and transaction at  *)
(* the isolation level the engine is created with (connection.py:6-10: the *)
(* database's default, READ COMMITTED): an UPDATE locks the row it changes *)
(* until its transaction ends, a concurrent UPDATE of that row waits and   *)
(* then evaluates its WHERE clause on the committed row, and a SELECT      *)
(* takes no lock.                                                          *)
(***************************************************************************)
UplFrame == UNCHANGED <<parserVars, tarVars, ioVars, lifeVars, lim,
                        dcm, tok, chat, req>>

\* A plausible slip: the WHERE clause does not ask for an unassociated row.
AssociateMatchesActive(row) == row.is_active

\* lines 49-53: is_active == True and thread_id IS NULL (for the given token)
AssociateMatches(row) == row.is_active /\ row.thread_id = 0

\* lines 47-63: the UPDATE ... RETURNING statement; token 0 is a token that
\* is in no row.  The statement waits while another transaction holds the row.
AssociateExecute(c) ==
    /\ upl.calls[c].pc = "idle"
    /\ \E token \in {0} \cup UploadTokens :
         IF token \in UploadTokens
         THEN /\ upl.lock[token] = 0
              /\ IF AssociateMatches(upl.rows[token])
                 THEN upl' = [upl EXCEPT
                                !.lock[token] = c,
                                !.calls[c] = [IdleAssoc EXCEPT !.pc = "executed",
                                                !.token = token, !.matched = TRUE]]
                 ELSE upl' = [upl EXCEPT
                                !.calls[c] = [IdleAssoc EXCEPT !.pc = "executed",
                                                !.token = token]]
         ELSE upl' = [upl EXCEPT
                        !.calls[c] = [IdleAssoc EXCEPT !.pc = "executed"]]
    /\ UplFrame

\* lines 65-76: no row returned: UploadNotFound and rollback; otherwise
\* commit and return file_path
AssociateFinish(c) ==
    /\ upl.calls[c].pc = "executed"
    /\ LET token == upl.calls[c].token
       IN  IF upl.calls[c].matched
           THEN upl' = [upl EXCEPT
                          !.rows[token].thread_id = c,
                          !.lock[token] = 0,
                          !.associated = @ \cup {token},
                          !.calls[c].pc = "done",
                          !.calls[c].result = "file_path"]
           ELSE upl' = [upl EXCEPT
                          !.calls[c].pc = "done",
                          !.calls[c].result = "UploadNotFound"]
    /\ UplFrame

\* lines 109-114: the rows the cleanup selects
Orphaned(row) ==
    row.old /\ ((row.is_active /\ row.thread_id = 0) \/ ~row.is_active)

\* lines 107-122: the SELECT; the rows are loaded as they are committed now
CleanupSelect ==
    /\ upl.clean.pc = "idle"
    /\ LET picked == { t \in UploadTokens : Orphaned(upl.rows[t]) }
       IN  upl' = [upl EXCEPT !.clean =
                     [pc |-> IF picked = {} THEN "done" ELSE "loop",
                      picked |-> picked,
                      wasActive |-> { t \in picked : upl.rows[t].is_active },
                      removed |-> {}]]
    /\ UplFrame

\* lines 124-131: one upload of the loop: its file is removed if it exists,
\* and the loaded object is marked inactive if it was loaded active
CleanupRemove ==
    /\ upl.clean.pc = "loop"
    /\ \E t \in upl.clean.picked \ upl.clean.removed :
         upl' = [upl EXCEPT !.rows[t].present = FALSE,
                            !.clean.removed = @ \cup {t}]
    /\ UplFrame

\* line 133: commit: the session flushes an UPDATE setting is_active = false
\* for each object marked, by primary key, waiting for rows held by others
CleanupCommit ==
    /\ upl.clean.pc = "loop" /\ upl.clean.removed = upl.clean.picked
    /\ \A t \in upl.clean.wasActive : upl.lock[t] = 0
    /\ upl' = [upl EXCEPT
                 !.rows = [t \in UploadTokens |->
                             IF t \in upl.clean.wasActive
                             THEN [upl.rows[t] EXCEPT !.is_active = FALSE]
                             ELSE upl.rows[t]],
                 !.clean.pc = "done"]
    /\ UplFrame

\* The rows create_upload has made (with their files), some of them old,
\* some deactivated or associated by earlier calls.
UploadRows ==
    [is_active : BOOLEAN, thread_id : {0, EarlierThread}, old : BOOLEAN,
     present : BOOLEAN]

UplInit ==
    /\ upl \in { [NoUpl EXCEPT !.rows = rows,
                               !.lock = [t \in UploadTokens |-> 0]] :
                   rows \in { r \in [UploadTokens -> UploadRows] :
                                \A t \in UploadTokens :
                                    r[t].is_active => r[t].present } }
    /\ dcm = NoDcm /\ tok = NoTok /\ chat = NoChat /\ req = NoReq
    /\ stream = <<>> /\ pos = 0 /\ parser = NewStreamParser(STREAM_HEADER_SIZE)
    /\ midFrame = FALSE /\ emptyFed = FALSE
    /\ files = <<>> /\ archive = <<>> /\ tarPc = "init"
    /\ readName = <<>> /\ readResult = Raised("")
    /\ written = 0 /\ running = FALSE /\ sockReset = FALSE /\ clock = 0
    /\ timeout = 0 /\ stdin = <<>> /\ delivered = <<>> /\ pc = "idle"
    /\ ready = NotReady /\ streamData = <<>> /\ sockOpen = FALSE /\ wrShut = 0
    /\ outcome = NoOutcome /\ containerUp = FALSE /\ timedOut = FALSE
    /\ sockErr = NoSockErr /\ eph = NoEph
    /\ fsys = NoFiles /\ seen = NothingSeen /\ lim = NoLim
    /\ images = {} /\ containers = {} /\ sandboxes = NoSandboxes
    /\ scope = [s \in SandboxIds |-> "outside"] /\ threads = IdleThreads
    /\ lastOp = NoOp /\ buildOps = [t \in Tags |-> 0]
    /\ tagHist = [t \in Tags |-> FreshHist(FALSE)]
    /\ spawned = [s \in SandboxIds |-> 0] /\ removals = [s \in SandboxIds |-> 0]

UplNext ==
    \/ \E c \in AssocCalls : AssociateExecute(c) \/ AssociateFinish(c)
    \/ CleanupSelect \/ CleanupRemove \/ CleanupCommit

SpecUploads == UplInit /\ [][UplNext]_vars

\* The calls for a token that returned its file path.
Winners(token) ==
    { c \in AssocCalls : /\ upl.calls[c].pc = "done" /\ upl.calls[c].token = token
                         /\ upl.calls[c].result = "file_path" }

\* C38: an upload token is bound to at most one thread: of the concurrent
\* associate_with_thread calls for a token at most one returns the file path
\* and every other one fails with UploadNotFound; a thread_id that is set is
\* never changed; and a call that fails leaves the upload rows as they were.
C38_TokenBoundOnce ==
    /\ [](\A t \in UploadTokens :
            /\ Cardinality(Winners(t)) <= 1
            /\ \A c \in AssocCalls :
                 (upl.calls[c].pc = "done" /\ c \notin Winners(upl.calls[c].token))
                     => upl.calls[c].result = "UploadNotFound")
    /\ [][ /\ \A t \in UploadTokens :
                upl.rows[t].thread_id # 0 =>
                    upl'.rows[t].thread_id = upl.rows[t].thread_id
           /\ \A c \in AssocCalls :
                (upl.calls[c].pc # "done" /\ upl'.calls[c].result = "UploadNotFound")
                    => upl'.rows = upl.rows
         ]_vars

\* C38 witness: two calls for the same token ran concurrently; the first to
\* execute returned the path and bound the token to its thread, the other
\* failed.
C38_Witness ==
    /\ upl.calls[1].pc = "done" /\ upl.calls[2].pc = "done"
    /\ upl.calls[1].token = 1 /\ upl.calls[2].token = 1
    /\ upl.calls[2].result = "file_path"
    /\ upl.calls[1].result = "UploadNotFound"
    /\ upl.rows[1].thread_id = 2

\* C39: the cleanup never touches an upload that is active and associated:
\* an upload for which associate_with_thread has returned successfully keeps
\* is_active = true and keeps its file on disk.
C39_AssociatedUploadKept ==
    \A t \in upl.associated : upl.rows[t].is_active /\ upl.rows[t].present

(***************************************************************************)
(* Role checking dependencies  (src/app/api/rbac.py:10-37)                 *)
(*                                                                         *)
(* One request to a handler that declares one of the four dependencies:    *)
(* the payload dependency authenticates (dependency.py:43-147, 150-203),   *)
(* the role checker verifies the payload's role, the handler runs.         *)
(***************************************************************************)
ReqFrame == UNCHANGED <<parserVars, tarVars, ioVars, lifeVars, lim,
                        dcm, tok, chat, upl>>

\* schema.py:22-25
Roles == {"USER", "ADMIN", "AGENT"}

\* rbac.py:33-37: the allowed_roles each dependency's checker is built with
AllowedRoles ==
    [AdminTokenDep |-> {"USER"},
     AdminApiDep |-> {"ADMIN"},
     UserTokenDep |-> {"ADMIN", "USER"},
     UserApiDep |-> {"ADMIN", "USER"}]

RoleDeps == DOMAIN AllowedRoles
AdminDeps == {"AdminTokenDep", "AdminApiDep"}

\* rbac.py:14-20: BaseRoleChecker.verify
VerifyRole(allowed_roles, role) == IF role \notin allowed_roles THEN 403 ELSE 200

\* get_token_payload / get_api_payload: a missing or invalid credential is
\* answered with 401; a valid one gives the payload with the user's role
Authenticate ==
    /\ req.step = "start"
    /\ IF req.credential = "valid"
       THEN req' = [req EXCEPT !.step = "authenticated"]
       ELSE req' = [req EXCEPT !.step = "rejected", !.status = 401]
    /\ ReqFrame

\* rbac.py:23-30: the checker's __call__ with the verified payload
CheckRole ==
    /\ req.step = "authenticated"
    /\ LET code == VerifyRole(AllowedRoles[req.dep], req.role)
       IN  IF code = 403
           THEN req' = [req EXCEPT !.step = "rejected", !.status = 403]
           ELSE req' = [req EXCEPT !.step = "checked"]
    /\ ReqFrame

\* The handler runs with the payload the dependency returned (for the admin
\* routes, admins.py:24-30 and the other handlers taking AdminTokenDep).
RunHandler ==
    /\ req.step = "checked"
    /\ req' = [req EXCEPT !.step = "handled", !.handled = TRUE, !.status = 200]
    /\ ReqFrame

ReqInit ==
    /\ req \in { [NoReq EXCEPT !.step = "start", !.dep = d, !.credential = c,
                               !.user_id = u, !.role = r] :
                   d \in RoleDeps, c \in {"valid", "missing", "invalid"},
                   u \in 1..MaxUserId, r \in Roles }
    /\ dcm = NoDcm /\ tok = NoTok /\ chat = NoChat /\ upl = NoUpl
    /\ stream = <<>> /\ pos = 0 /\ parser = NewStreamParser(STREAM_HEADER_SIZE)
    /\ midFrame = FALSE /\ emptyFed = FALSE
    /\ files = <<>> /\ archive = <<>> /\ tarPc = "init"
    /\ readName = <<>> /\ readResult = Raised("")
    /\ written = 0 /\ running = FALSE /\ sockReset = FALSE /\ clock = 0
    /\ timeout = 0 /\ stdin = <<>> /\ delivered = <<>> /\ pc = "idle"
    /\ ready = NotReady /\ streamData = <<>> /\ sockOpen = FALSE /\ wrShut = 0
    /\ outcome = NoOutcome /\ containerUp = FALSE /\ timedOut = FALSE
    /\ sockErr = NoSockErr /\ eph = NoEph
    /\ fsys = NoFiles /\ seen = NothingSeen /\ lim = NoLim
    /\ images = {} /\ containers = {} /\ sandboxes = NoSandboxes
    /\ scope = [s \in SandboxIds |-> "outside"] /\ threads = IdleThreads
    /\ lastOp = NoOp /\ buildOps = [t \in Tags |-> 0]
    /\ tagHist = [t \in Tags |-> FreshHist(FALSE)]
    /\ spawned = [s \in SandboxIds |-> 0] /\ removals = [s \in SandboxIds |-> 0]

ReqNext == Authenticate \/ CheckRole \/ RunHandler

SpecRbac == ReqInit /\ [][ReqNext]_vars

\* A role outside a checker's allowed_roles is rejected with 403 and the
\* handler does not run.
OutsideAllowedRejected ==
    /\ req.handled => req.role \in AllowedRoles[req.dep]
    /\ (req.step = "rejected" /\ req.credential = "valid") =>
          req.status = 403 /\ req.role \notin AllowedRoles[req.dep]

\* C40: admin-only access control: a request reaches a handler guarded by
\* AdminTokenDep or AdminApiDep only if the verified payload's role is ADMIN;
\* a payload with role USER is rejected there with 403; and every role
\* outside a checker's allowed_roles is rejected before the handler runs.
C40_AdminOnly ==
    /\ OutsideAllowedRejected
    /\ req.dep \in AdminDeps =>
          /\ req.handled => req.role = "ADMIN"
          /\ (req.role = "USER" /\ req.credential = "valid"
                /\ req.step \notin {"start", "authenticated"})
                => req.step = "rejected" /\ req.status = 403

====
